---------------------------- MODULE Spec2Model ----------------------------
(***************************************************************************)
(* Roster generation of workschedule-app (src/app/api/generate/route.ts).  *)
(*                                                                         *)
(* One run of POST is modelled as a state machine: the date loop, the      *)
(* special phase of each date, the weekend/holiday skip and the daily      *)
(* retry loop with its phases (staffSeveral, dependency, weekly-sticky,    *)
(* depended-on, standard, fallback).  Every iteration of a phase loop that *)
(* does not `continue` is one step; Math.random() is a choice with \E.     *)
(*                                                                         *)
(* Dates are day numbers of the target month: 1 is the first day of the    *)
(* month, 0 and below are the last days of the month before, NumDates + 1  *)
(* is the first day of the month after.  formatDateLocal is injective on   *)
(* dates, so two date strings are equal exactly when the day numbers are.  *)
(***************************************************************************)
EXTENDS Integers, Sequences, FiniteSets, TLC

\* Number of days of the target month in the model (getDatesInMonth yields
\* 28..31 in the program).
NumDates == 8

\* const maxRetries = 10
maxRetries == 10

\* the literal 10 of getNextBusinessDay / getPreviousBusinessDay
maxSkips == 10

\* "未配置", the marker of a position left without staff
UNFILLED == "UNFILLED"

\* "", the entry of a non-required position left without staff
BLANK == ""

VARIABLES
    \* the request, the store and the calendar, fixed during a run
    department,         \* the department filter of the request ("" when none)
    staffList,          \* the staff collection (StaffData[]), store order
    filteredStaffList,  \* staffList after the department filter
    normalPositions,    \* the filtered positions, sorted by priority
    startDow,           \* getDay() of day 1 of the month (0 = Sunday .. 6 = Saturday)
    holidays,           \* the dates the holiday provider reports
    preCalcSpecialHolidays,
    \* the date loop
    i,              \* index of the current date (1-based; NumDates + 1 after the loop)
    pc,             \* position of the run inside the date loop
    k,              \* index into normalPositions of the position a phase handles next
    weeklyAssignments,
    prevWeeklyAssignments,
    currentWeekStart,
    staffAssignments,
    staffSeveralCounts,
    normalCounts,
    specialHolidays,
    providerCalls,  \* the fetches of the provider made for holidayFlag, all for the month of the run
    \* per date
    specialAssigned,
    specialAssignedTomorrowOnly,
    preservedAssignments,
    attempt,
    assignmentValid,
    \* per attempt
    availableStaff,
    dailyAssigned,
    dailyAssignedSeveral,
    \* the holiday provider during the run: TRUE when its responses are OK
    providerOk,
    \* the rotation run (src/app/api/night/route.ts)
    request,            \* the request body: startMonth and endMonth
    at,                 \* position of the rotation run in POST
    year,               \* getMonthRange: let year
    mon,                \* getMonthRange: let mon
    monthRange,         \* the months enumerated by getMonthRange
    storeRead,          \* TRUE once getDocs has read the store
    staffDocs,          \* the store's staff documents: the dates under each position name
    nightPositions,
    nichokuPositions,
    counters,
    staffCounters,
    staffLastAssigned,
    countersBackup,
    staffCountersBackup,
    staffLastAssignedBackup,
    attemptsMade,       \* let attempts of the date loop
    assignmentsForDate,
    assignedDepts,      \* assignNightShift: departments already used on the date
    monthIndex,         \* index into monthRange of the month being processed
    rowDate,              \* the date of the current row
    posIndex,           \* index of the position assignNightShift / assignNichokuShift handles next
    worksheet,          \* the rows written to the report, by date
    \* a call of getNextBusinessDay / getPreviousBusinessDay on its own
    day,                \* the date argument of the call
    asked,              \* the function called: "next", "previous", or "none" before a call
    answer,             \* what the call returned: <<date>>, or << >> for null
    \* a request to the edit endpoint (src/app/api/nightEdit/update/route.ts)
    updates,            \* body.updates: the entries of the request
    shiftFields,        \* the store's staff documents: the dates under each shift type
    callbacks,          \* the async callbacks forEach has started, by entry and shift type
    response            \* the response of the endpoint, "pending" until POST returns

inputs == <<department, staffList, filteredStaffList, normalPositions, startDow,
            holidays, preCalcSpecialHolidays, providerOk>>

\* The state of a rotation run, which roster generation never touches
rotation == <<request, at, year, mon, monthRange, storeRead, staffDocs,
              nightPositions, nichokuPositions, counters, staffCounters,
              staffLastAssigned, countersBackup, staffCountersBackup,
              staffLastAssignedBackup, attemptsMade, assignmentsForDate, assignedDepts,
              monthIndex, rowDate, posIndex, worksheet>>

\* The state of a business-day call on its own, which no run touches
calendarQuery == <<day, asked, answer>>

\* The state of a request to the edit endpoint, which no run touches
edit == <<updates, shiftFields, callbacks, response>>

vars == <<department, staffList, filteredStaffList, normalPositions, startDow, holidays,
          preCalcSpecialHolidays, i, pc, k,
          weeklyAssignments, prevWeeklyAssignments, currentWeekStart,
          staffAssignments, staffSeveralCounts, normalCounts, specialHolidays,
          providerCalls,
          specialAssigned, specialAssignedTomorrowOnly, preservedAssignments,
          attempt, assignmentValid, availableStaff, dailyAssigned,
          dailyAssignedSeveral, providerOk, rotation, calendarQuery, edit>>

---------------------------------------------------------------------------
\* Sequences and sets

Range(s) == {s[n] : n \in DOMAIN s}

\* The one element of a set of one element.  The folds below hand their
\* accumulated value on as {Fold(v, ...) : v \in {step}}, which evaluates
\* the step once before the next iteration reads it.
The(set) == CHOOSE v \in set : TRUE

Last(s) == s[Len(s)]

\* Array.prototype.filter on a sequence, for a set of kept indices
RECURSIVE KeepIdx(_, _, _)
KeepIdx(s, keep, n) ==
    IF n > Len(s) THEN << >>
    ELSE IF n \in keep THEN <<s[n]>> \o KeepIdx(s, keep, n + 1)
    ELSE KeepIdx(s, keep, n + 1)

\* Array.prototype.sort with comparator a.key - b.key (a stable sort), on
\* the indices of the array: keys[n] is the key of element n, and index n
\* is inserted behind every index whose key is not larger.
RECURSIVE InsertByKey(_, _, _)
InsertByKey(sorted, n, keys) ==
    IF sorted = << >> THEN <<n>>
    ELSE IF keys[Last(sorted)] <= keys[n] THEN Append(sorted, n)
    ELSE Append(The({InsertByKey(front, n, keys) :
                       front \in {SubSeq(sorted, 1, Len(sorted) - 1)}}),
                Last(sorted))

RECURSIVE SortIdx(_, _)
SortIdx(keys, n) ==
    IF n = 0 THEN << >>
    ELSE The({InsertByKey(sorted, n, keys) : sorted \in {SortIdx(keys, n - 1)}})

SortByKey(s, keys) ==
    The({[n \in 1 .. Len(s) |-> s[order[n]]] : order \in {SortIdx(keys, Len(s))}})

---------------------------------------------------------------------------
\* Calendar

\* Date.getDay() of day d
getDay(d) == (startDow + d - 1 + 70) % 7

\* A holiday lookup that keeps using the provider's dates when the provider fails
isJapaneseHolidayDespiteFailure(d) == d \in holidays

\* isJapaneseHoliday(date): the provider's dates hold the date; getJapaneseHolidays
\* returns [] when the response is not OK or the fetch throws
isJapaneseHoliday(d) == providerOk /\ d \in holidays

\* The skip with the holiday flag left out
NonWorkingWeekendOnly(d) == getDay(d) = 0 \/ getDay(d) = 6

\* day === 0 || day === 6 || holidayFlag
NonWorking(d) == getDay(d) = 0 \/ getDay(d) = 6 \/ isJapaneseHoliday(d)

\* The while loop of getNextBusinessDay (dir = 1) and getPreviousBusinessDay
\* (dir = -1): << >> is null.
RECURSIVE BusinessDaySearch(_, _, _)
BusinessDaySearch(d, dir, attempts) ==
    IF NonWorking(d) /\ attempts < maxSkips
    THEN BusinessDaySearch(d + dir, dir, attempts + 1)
    ELSE IF attempts < maxSkips THEN <<d>> ELSE << >>

getNextBusinessDay(d) == BusinessDaySearch(d + 1, 1, 0)

getPreviousBusinessDay(d) == BusinessDaySearch(d - 1, -1, 0)

\* diffForMonday / weekStartDate: the Monday of the week of d
weekStart(d) == d + (IF getDay(d) = 0 THEN -6 ELSE 1 - getDay(d))

\* The for loop of the weekly-sticky block: the first working day from the
\* Monday of the week up to the current date, << >> when there is none.
RECURSIVE FirstWeekdaySearch(_, _)
FirstWeekdaySearch(d, cur) ==
    IF d > cur THEN << >>
    ELSE IF getDay(d) # 0 /\ getDay(d) # 6 /\ ~isJapaneseHoliday(d) THEN <<d>>
    ELSE FirstWeekdaySearch(d + 1, cur)

firstWeekday(cur) == FirstWeekdaySearch(weekStart(cur), cur)

\* getDatesInMonth(month), as day numbers
dates == 1 .. NumDates

---------------------------------------------------------------------------
\* The store's records

\* A PositionData record.  The document id stands for the name too: the
\* model's positions have pairwise different names.
Position(id, priority, required, sameStaffWeekly, allowMultiple, staffSeveral, horidayToday, horidayTomorrow, dependence, departments) ==
    [id |-> id, name |-> id, priority |-> priority, required |-> required,
     sameStaffWeekly |-> sameStaffWeekly, allowMultiple |-> allowMultiple,
     staffSeveral |-> staffSeveral, horidayToday |-> horidayToday,
     horidayTomorrow |-> horidayTomorrow, dependence |-> dependence,
     departments |-> departments]

\* A StaffData record.  special is the dynamic field staff[pos.name]: the
\* special-assignment dates per position name (a function on some names).
Staff(name, availablePositions, yukyu, furikyu, daikyu, special, departments) ==
    [name |-> name, availablePositions |-> availablePositions,
     holidaysYukyu |-> yukyu, holidaysFurikyu |-> furikyu,
     holidaysDaikyu |-> daikyu, special |-> special, departments |-> departments]

\* Array.isArray(specialField) && specialField.includes(dStr)
HasSpecialDate(staff, pos, d) ==
    pos.name \in DOMAIN staff.special /\ d \in staff.special[pos.name]

PosIds == {normalPositions[n].id : n \in DOMAIN normalPositions}

Names == {staffList[n].name : n \in DOMAIN staffList}

\* pos.dependence && pos.dependence.trim() !== ""
HasDependence(pos) == pos.dependence # ""

\* referencedIndependentIds
referencedIndependentIds ==
    {normalPositions[n].dependence :
        n \in {m \in DOMAIN normalPositions : HasDependence(normalPositions[m])}}

\* holidayStaffYukyu, holidayStaffFurikyu, holidayStaffDaikyu of a date, as names
holidayStaffYukyu(d) ==
    {filteredStaffList[n].name :
        n \in {m \in DOMAIN filteredStaffList : d \in filteredStaffList[m].holidaysYukyu}}

holidayStaffFurikyu(d) ==
    {filteredStaffList[n].name :
        n \in {m \in DOMAIN filteredStaffList : d \in filteredStaffList[m].holidaysFurikyu}}

holidayStaffDaikyu(d) ==
    {filteredStaffList[n].name :
        n \in {m \in DOMAIN filteredStaffList : d \in filteredStaffList[m].holidaysDaikyu}}

\* [...holidayStaffYukyu, ...holidayStaffFurikyu, ...holidayStaffDaikyu]
holidayStaff(d) == holidayStaffYukyu(d) \cup holidayStaffFurikyu(d) \cup holidayStaffDaikyu(d)

\* A map read with a default: obj[key] of a key the object may lack
Lookup(f, key, default) == IF key \in DOMAIN f THEN f[key] ELSE default

\* obj[key] = value
Store(f, key, value) == (key :> value) @@ f

\* set.add(name) on the set kept under a date
AddTo(sets, d, name) == Store(sets, d, Lookup(sets, d, {}) \cup {name})

---------------------------------------------------------------------------
\* Pre-calculation of the special leave of the month (preCalcSpecialHolidays)

\* One iteration of the innermost loop: position pos, staff member staff,
\* date d.  A next business day's set is overwritten, not extended.
PreCalcStep(pre, pos, staff, d) ==
    LET next == getNextBusinessDay(d)
        withNext == IF next = << >> THEN pre ELSE Store(pre, next[1], {staff.name})
    IN  IF ~HasSpecialDate(staff, pos, d) THEN pre
        ELSE IF pos.horidayToday /\ pos.horidayTomorrow
             THEN LET today == AddTo(pre, d, staff.name)
                  IN  IF next = << >> THEN today ELSE Store(today, next[1], {staff.name})
        ELSE IF pos.horidayToday THEN AddTo(pre, d, staff.name)
        ELSE IF pos.horidayTomorrow THEN withNext
        ELSE pre

\* The loops over normalPositions and staffList for date d, from position
\* index p and staff index s on
RECURSIVE PreCalcDate(_, _, _, _, _, _)
PreCalcDate(pre, poss, staff, d, p, s) ==
    IF p > Len(poss) THEN pre
    ELSE IF s > Len(staff) THEN PreCalcDate(pre, poss, staff, d, p + 1, 1)
    ELSE The({PreCalcDate(v, poss, staff, d, p, s + 1) :
                v \in {PreCalcStep(pre, poss[p], staff[s], d)}})

\* for (const date of dates), from date d on: the set of the date is
\* created when it is missing, then the inner loops run
RECURSIVE PreCalcFrom(_, _, _, _)
PreCalcFrom(pre, poss, staff, d) ==
    IF d > NumDates THEN pre
    ELSE The({PreCalcFrom(v, poss, staff, d + 1) :
                v \in {PreCalcDate(IF d \in DOMAIN pre THEN pre ELSE Store(pre, d, {}),
                                   poss, staff, d, 1, 1)}})

---------------------------------------------------------------------------
\* The special phase of a date

\* One iteration of the inner loop of the special phase.  st holds the
\* lists of the date (lists), specialHolidays (sh), specialAssigned (sa)
\* and specialAssignedTomorrowOnly (sto).
SpecialStep(st, pos, staff, d) ==
    IF ~HasSpecialDate(staff, pos, d) \/ staff.name \in st.sa THEN st
    ELSE
        LET pushed == [st EXCEPT !.lists[pos.id] =
                          IF staff.name \in Range(@) THEN @ ELSE Append(@, staff.name)]
        IN  IF pos.horidayToday /\ pos.horidayTomorrow
            THEN [pushed EXCEPT !.sh = AddTo(AddTo(@, d, staff.name), d + 1, staff.name),
                                !.sa = @ \cup {staff.name}]
            ELSE IF pos.horidayToday
            THEN [pushed EXCEPT !.sh = AddTo(@, d, staff.name),
                                !.sa = @ \cup {staff.name}]
            ELSE IF pos.horidayTomorrow
            THEN [pushed EXCEPT !.sh = AddTo(@, d + 1, staff.name),
                                !.sto = @ \cup {staff.name}]
            ELSE pushed

\* for (const pos of normalPositions) for (const staff of staffList)
RECURSIVE SpecialFrom(_, _, _, _)
SpecialFrom(st, d, p, s) ==
    IF p > Len(normalPositions) THEN st
    ELSE IF s > Len(staffList) THEN SpecialFrom(st, d, p + 1, 1)
    ELSE The({SpecialFrom(v, d, p, s + 1) :
                v \in {SpecialStep(st, normalPositions[p], staffList[s], d)}})

\* The special phase of date d: every list of the date starts empty.
SpecialPhase(d) ==
    SpecialFrom([lists |-> [id \in PosIds |-> << >>], sh |-> specialHolidays,
                 sa |-> {}, sto |-> {}], d, 1, 1)

---------------------------------------------------------------------------
\* The phases of one attempt of the retry loop

\* The loops of an attempt, in the order the code runs them
PhaseOrder == <<"several", "dependency", "weekly", "depended", "standard">>

\* Whether a phase's loop handles a position (it does not `continue`)
Applies(phase, pos) ==
    CASE phase = "several" ->
            ~HasDependence(pos) /\ pos.id \notin referencedIndependentIds /\ pos.staffSeveral
      [] phase = "dependency" -> HasDependence(pos)
      [] phase = "weekly" ->
            ~HasDependence(pos) /\ pos.sameStaffWeekly /\ ~pos.staffSeveral
      [] phase = "depended" ->
            ~HasDependence(pos) /\ pos.id \in referencedIndependentIds
      [] phase = "standard" ->
            ~HasDependence(pos) /\ pos.id \notin referencedIndependentIds
            /\ ~pos.sameStaffWeekly /\ ~pos.staffSeveral

\* The next iteration that does not `continue`, from iteration kk of the
\* loop number ph on; the fallback follows the last loop.
RECURSIVE Seek(_, _)
Seek(ph, kk) ==
    IF ph > Len(PhaseOrder) THEN <<"fallback", 1>>
    ELSE IF kk > Len(normalPositions) THEN Seek(ph + 1, 1)
    ELSE IF Applies(PhaseOrder[ph], normalPositions[kk]) THEN <<PhaseOrder[ph], kk>>
    ELSE Seek(ph, kk + 1)

PhaseIndex(phase) == CHOOSE n \in DOMAIN PhaseOrder : PhaseOrder[n] = phase

\* The iteration after iteration kk of a phase's loop
NextWork(phase, kk) == Seek(PhaseIndex(phase), kk + 1)

\* The date the loop is at, and its lists
date == i

\* staffAssignments[dateStr][pos.id].push(entry)
Push(posId, entry) ==
    [staffAssignments EXCEPT ![date][posId] = Append(@, entry)]

\* pos.required ? "未配置" : ""
NoCandidateEntry(pos) == IF pos.required THEN UNFILLED ELSE BLANK

\* The staff of filteredStaffList a position name is open to
EligibleFor(pos) ==
    {filteredStaffList[n].name :
        n \in {m \in DOMAIN filteredStaffList :
                  pos.name \in filteredStaffList[m].availablePositions}}

\* The candidates of a staffSeveral position
SeveralCandidates(pos) ==
    {s \in EligibleFor(pos) :
        /\ s \notin dailyAssignedSeveral
        /\ s \notin holidayStaff(date)
        /\ s \notin specialAssignedTomorrowOnly
        /\ s \in availableStaff}

\* availableForPos of the weekly-sticky and the standard block
AvailableForPos(pos) ==
    {s \in EligibleFor(pos) : s \in availableStaff /\ s \notin dailyAssigned}

\* finalCandidates: the candidates whose count is the minimum
LeastUsed(candidates, counts) ==
    {s \in candidates : \A o \in candidates : counts[s] <= counts[o]}

---------------------------------------------------------------------------
\* The date loop

\* The week rollover and the special phase at the head of the loop body
DateHead(d) ==
    \E st \in {SpecialPhase(d)} :
        /\ IF currentWeekStart # <<weekStart(d)>>
           THEN /\ prevWeeklyAssignments' = weeklyAssignments
                /\ weeklyAssignments' = << >>
                /\ currentWeekStart' = <<weekStart(d)>>
           ELSE UNCHANGED <<prevWeeklyAssignments, weeklyAssignments, currentWeekStart>>
        /\ staffAssignments' = Store(staffAssignments, d, st.lists)
        /\ specialHolidays' = st.sh
        /\ specialAssigned' = st.sa
        /\ specialAssignedTomorrowOnly' = st.sto

\* i++ of the date loop
NextDate ==
    /\ i' = i + 1
    /\ pc' = IF i = NumDates THEN "done" ELSE "date"

\* const holidayFlag = await isJapaneseHoliday(date): getJapaneseHolidays
\* fetches the provider's dates on every call
HolidayFlagFetch == providerCalls' = providerCalls + 1

\* A Saturday, Sunday or holiday: the special phase, then `continue`
DateNonWorking ==
    /\ pc = "date"
    /\ NonWorking(date)
    /\ DateHead(date)
    /\ HolidayFlagFetch
    /\ NextDate
    /\ UNCHANGED <<inputs, rotation, calendarQuery, edit, k, staffSeveralCounts, normalCounts, preservedAssignments,
                   attempt, assignmentValid, availableStaff, dailyAssigned,
                   dailyAssignedSeveral>>

\* A working day: the special phase, then the retry loop is set up
DateWorking ==
    /\ pc = "date"
    /\ ~NonWorking(date)
    /\ DateHead(date)
    /\ HolidayFlagFetch
    /\ preservedAssignments' = staffAssignments'[date]
    /\ attempt' = 0
    /\ assignmentValid' = FALSE
    /\ pc' = "loop"
    /\ UNCHANGED <<inputs, rotation, calendarQuery, edit, i, k, staffSeveralCounts, normalCounts, availableStaff,
                   dailyAssigned, dailyAssignedSeveral>>

\* A reset that puts the preserved lists under every date the run has reached
ResetEveryDate == [d \in DOMAIN staffAssignments |-> preservedAssignments]

\* staffAssignments[dateStr][pos.id] = [...(preservedAssignments[pos.id] || [])]
\* for every position: the lists of the current date are the preserved ones again
ResetCurrentDate == [staffAssignments EXCEPT ![date] = preservedAssignments]

\* while (attempt < maxRetries && !assignmentValid): the head of an attempt
AttemptStart ==
    /\ pc = "loop"
    /\ attempt < maxRetries /\ ~assignmentValid
    /\ staffAssignments' = ResetCurrentDate
    /\ availableStaff' =
          ((({filteredStaffList[n].name : n \in DOMAIN filteredStaffList}
              \ holidayStaff(date))
             \ Lookup(specialHolidays, date, {}))
            \ specialAssigned)
    /\ dailyAssigned' = {}
    /\ dailyAssignedSeveral' = {}
    /\ pc' = Seek(1, 1)[1]
    /\ k' = Seek(1, 1)[2]
    /\ UNCHANGED <<inputs, rotation, calendarQuery, edit, i, weeklyAssignments, prevWeeklyAssignments, currentWeekStart,
                   staffSeveralCounts, normalCounts, specialHolidays, providerCalls, specialAssigned,
                   specialAssignedTomorrowOnly, preservedAssignments, attempt,
                   assignmentValid>>

\* The retry loop ends: the date keeps the lists it has
LoopExit ==
    /\ pc = "loop"
    /\ ~(attempt < maxRetries /\ ~assignmentValid)
    /\ NextDate
    /\ UNCHANGED <<inputs, rotation, calendarQuery, edit, k, weeklyAssignments, prevWeeklyAssignments, currentWeekStart,
                   staffAssignments, staffSeveralCounts, normalCounts, specialHolidays,
                   providerCalls, specialAssigned, specialAssignedTomorrowOnly, preservedAssignments,
                   attempt, assignmentValid, availableStaff, dailyAssigned,
                   dailyAssignedSeveral>>

\* The step to the next loop iteration that does not `continue`
Advance(phase) ==
    /\ pc' = NextWork(phase, k)[1]
    /\ k' = NextWork(phase, k)[2]

\* What no phase of an attempt writes
AttemptFrame ==
    UNCHANGED <<inputs, rotation, calendarQuery, edit, i, prevWeeklyAssignments, currentWeekStart, specialHolidays,
                providerCalls, specialAssigned, specialAssignedTomorrowOnly, preservedAssignments,
                attempt, assignmentValid>>

\* One iteration of the staffSeveral block
SeveralStep ==
    /\ pc = "several"
    /\ LET pos == normalPositions[k]
           candidates == SeveralCandidates(pos)
       IN  IF candidates # {}
           THEN \E chosen \in LeastUsed(candidates, staffSeveralCounts[pos.id]) :
                   /\ staffAssignments' = Push(pos.id, chosen)
                   /\ dailyAssignedSeveral' = dailyAssignedSeveral \cup {chosen}
                   /\ staffSeveralCounts' =
                         [staffSeveralCounts EXCEPT ![pos.id][chosen] = @ + 1]
           ELSE /\ staffAssignments' = Push(pos.id, NoCandidateEntry(pos))
                /\ UNCHANGED <<dailyAssignedSeveral, staffSeveralCounts>>
    /\ Advance("several")
    /\ AttemptFrame
    /\ UNCHANGED <<weeklyAssignments, normalCounts, availableStaff, dailyAssigned>>

\* PreviousList with the calendar day before in place of the previous
\* business day
PreviousListOfYesterday(independentPosId) ==
    IF date - 1 \notin DOMAIN staffAssignments THEN << >>
    ELSE Lookup(staffAssignments[date - 1], independentPosId, << >>)

\* The list of the depended-on position on the previous business day:
\* << >> when there is no such day, date or list
PreviousList(independentPosId) ==
    LET prev == getPreviousBusinessDay(date)
    IN  IF prev = << >> THEN << >>
        ELSE IF prev[1] \notin DOMAIN staffAssignments THEN << >>
        ELSE Lookup(staffAssignments[prev[1]], independentPosId, << >>)

\* One iteration of the dependency block
DependencyStep ==
    /\ pc = "dependency"
    /\ LET pos == normalPositions[k]
           list == PreviousList(pos.dependence)
       IN  IF list = << >>
           THEN /\ staffAssignments' = Push(pos.id, UNFILLED)
                /\ UNCHANGED <<availableStaff, dailyAssigned>>
           ELSE /\ staffAssignments' = Push(pos.id, Last(list))
                /\ availableStaff' = availableStaff \ {Last(list)}
                /\ dailyAssigned' = dailyAssigned \cup {Last(list)}
    /\ Advance("dependency")
    /\ AttemptFrame
    /\ UNCHANGED <<weeklyAssignments, staffSeveralCounts, normalCounts, dailyAssignedSeveral>>

\* weekKey of a position in the week of the current date
weekKey(pos) == <<firstWeekday(date)[1], pos.id>>

\* alreadyAssignedName that never finds a recorded name
NoStickyName(pos) == ""

\* alreadyAssignedName of the weekly-sticky block ("" for null)
alreadyAssignedName(pos) ==
    LET sticky == Lookup(weeklyAssignments, weekKey(pos), "")
    IN  IF /\ firstWeekday(date) # << >>
           /\ sticky # ""
           /\ sticky # Lookup(prevWeeklyAssignments, weekKey(pos), "")
           /\ sticky \notin holidayStaff(date)
           /\ sticky \notin Lookup(specialHolidays, date, {})
        THEN sticky
        ELSE ""

\* One iteration of the weekly-sticky block
WeeklyStep ==
    /\ pc = "weekly"
    /\ LET pos == normalPositions[k]
           sticky == alreadyAssignedName(pos)
           availableForPos == AvailableForPos(pos)
       IN  IF sticky # "" /\ sticky \notin dailyAssigned
           THEN /\ staffAssignments' = Push(pos.id, sticky)
                /\ dailyAssigned' = dailyAssigned \cup {sticky}
                /\ availableStaff' = availableStaff \ {sticky}
                /\ UNCHANGED <<normalCounts, weeklyAssignments>>
           ELSE IF availableForPos # {}
           THEN \E chosen \in LeastUsed(availableForPos, normalCounts[pos.id]) :
                   /\ staffAssignments' = Push(pos.id, chosen)
                   /\ dailyAssigned' = dailyAssigned \cup {chosen}
                   /\ availableStaff' = availableStaff \ {chosen}
                   /\ normalCounts' = [normalCounts EXCEPT ![pos.id][chosen] = @ + 1]
                   /\ weeklyAssignments' =
                         IF firstWeekday(date) = <<date>>
                         THEN Store(weeklyAssignments, weekKey(pos), chosen)
                         ELSE weeklyAssignments
           ELSE /\ staffAssignments' = Push(pos.id, NoCandidateEntry(pos))
                /\ UNCHANGED <<dailyAssigned, availableStaff, normalCounts,
                               weeklyAssignments>>
    /\ Advance("weekly")
    /\ AttemptFrame
    /\ UNCHANGED <<staffSeveralCounts, dailyAssignedSeveral>>

\* The staff on one of the three leaves on the next business day, or in its
\* pre-calculated special leave
AwayNextBusinessDay ==
    LET next == getNextBusinessDay(date)
    IN  IF next = << >> THEN {}
        ELSE Lookup(preCalcSpecialHolidays, next[1], {}) \cup holidayStaff(next[1])

\* The candidates of a depended-on position
DependedCandidates(pos) ==
    {s \in AvailableForPos(pos) : s \notin AwayNextBusinessDay}

\* One iteration of the depended-on block
DependedStep ==
    /\ pc = "depended"
    /\ LET pos == normalPositions[k]
           candidates == DependedCandidates(pos)
       IN  IF candidates # {}
           THEN \E chosen \in candidates :
                   /\ staffAssignments' = Push(pos.id, chosen)
                   /\ dailyAssigned' = dailyAssigned \cup {chosen}
                   /\ availableStaff' = availableStaff \ {chosen}
           ELSE /\ staffAssignments' = Push(pos.id, NoCandidateEntry(pos))
                /\ UNCHANGED <<dailyAssigned, availableStaff>>
    /\ Advance("depended")
    /\ AttemptFrame
    /\ UNCHANGED <<weeklyAssignments, staffSeveralCounts, normalCounts, dailyAssignedSeveral>>

\* One iteration of the standard block
StandardStep ==
    /\ pc = "standard"
    /\ LET pos == normalPositions[k]
           availableForPos == AvailableForPos(pos)
       IN  IF availableForPos # {}
           THEN \E chosen \in LeastUsed(availableForPos, normalCounts[pos.id]) :
                   /\ staffAssignments' = Push(pos.id, chosen)
                   /\ dailyAssigned' = dailyAssigned \cup {chosen}
                   /\ availableStaff' = availableStaff \ {chosen}
                   /\ normalCounts' = [normalCounts EXCEPT ![pos.id][chosen] = @ + 1]
           ELSE /\ staffAssignments' = Push(pos.id, NoCandidateEntry(pos))
                /\ UNCHANGED <<dailyAssigned, availableStaff, normalCounts>>
    /\ Advance("standard")
    /\ AttemptFrame
    /\ UNCHANGED <<weeklyAssignments, staffSeveralCounts, dailyAssignedSeveral>>

\* stillUnassigned: the staff left in availableStaff, in the order of
\* filteredStaffList, sorted by the number of their available positions
stillUnassigned ==
    LET left == KeepIdx(filteredStaffList,
                        {n \in DOMAIN filteredStaffList :
                            filteredStaffList[n].name \in availableStaff}, 1)
    IN  SortByKey(left, [n \in DOMAIN left |-> Cardinality(left[n].availablePositions)])

\* candidatePositions of a staff member, given the lists of the date
candidatePositions(staffObj, lists) ==
    KeepIdx(normalPositions,
            {n \in DOMAIN normalPositions :
                LET pos == normalPositions[n]
                IN  /\ ~pos.staffSeveral
                    /\ pos.name \in staffObj.availablePositions
                    /\ (pos.allowMultiple \/ lists[pos.id] = << >>)}, 1)

\* The loop over stillUnassigned, from its n-th element on.  st holds the
\* lists of the date (lists), availableStaff (avail) and dailyAssigned (daily).
RECURSIVE FallbackFrom(_, _, _)
FallbackFrom(st, left, n) ==
    IF n > Len(left) THEN st
    ELSE LET staffObj == left[n]
             cands == candidatePositions(staffObj, st.lists)
         IN  IF cands = << >> THEN FallbackFrom(st, left, n + 1)
             ELSE The({FallbackFrom(v, left, n + 1) :
                         v \in {[lists |-> [st.lists EXCEPT ![cands[1].id] =
                                                Append(@, staffObj.name)],
                                 avail |-> st.avail \ {staffObj.name},
                                 daily |-> st.daily \cup {staffObj.name}]}})

\* A validity check that takes every attempt for complete
PoolEmptiedAlways(avail) == TRUE

\* if (availableStaff.size === 0)
PoolEmptied(avail) == avail = {}

\* The fallback block and the validity check that ends an attempt
FallbackAndCheck ==
    /\ pc = "fallback"
    /\ \E left \in {stillUnassigned} :
       \E st \in {FallbackFrom([lists |-> staffAssignments[date],
                               avail |-> availableStaff, daily |-> dailyAssigned],
                              left, 1)} :
           /\ staffAssignments' = [staffAssignments EXCEPT ![date] = st.lists]
           /\ availableStaff' = st.avail
           /\ dailyAssigned' = st.daily
           /\ IF PoolEmptied(st.avail)
              THEN assignmentValid' = TRUE /\ attempt' = attempt
              ELSE assignmentValid' = assignmentValid /\ attempt' = attempt + 1
    /\ pc' = "loop"
    /\ UNCHANGED <<inputs, rotation, calendarQuery, edit, i, k, weeklyAssignments, prevWeeklyAssignments,
                   currentWeekStart, staffSeveralCounts, normalCounts, specialHolidays,
                   providerCalls, specialAssigned, specialAssignedTomorrowOnly, preservedAssignments,
                   dailyAssignedSeveral>>

---------------------------------------------------------------------------
\* The requests and store contents of the model

\* The position tables of the model, in store order.  N is a duty filled
\* from special-assignment dates (a night shift), Q a position that P
\* depends on, W a weekly-sticky position, S a quota (staffSeveral)
\* position and T an ordinary position.
\*        id  priority required sticky multiple several today   tomorrow dependence
Layout1 ==
    <<Position("N", 1, FALSE, FALSE, FALSE, FALSE, TRUE,  TRUE,  "",  {}),
      Position("Q", 2, TRUE,  FALSE, TRUE,  FALSE, FALSE, FALSE, "",  {}),
      Position("P", 3, TRUE,  FALSE, FALSE, FALSE, FALSE, FALSE, "Q", {}),
      Position("W", 4, TRUE,  TRUE,  FALSE, FALSE, FALSE, FALSE, "",  {}),
      Position("S", 5, FALSE, FALSE, FALSE, TRUE,  FALSE, FALSE, "",  {}),
      Position("T", 6, FALSE, FALSE, TRUE,  FALSE, FALSE, FALSE, "",  {})>>

Layout2 ==
    <<Position("T", 6, TRUE,  TRUE,  TRUE,  FALSE, FALSE, FALSE, "",  {}),
      Position("P", 3, FALSE, FALSE, TRUE,  FALSE, FALSE, FALSE, "Q", {}),
      Position("Q", 2, TRUE,  TRUE,  FALSE, FALSE, FALSE, FALSE, "",  {}),
      Position("N", 1, TRUE,  FALSE, FALSE, FALSE, FALSE, TRUE,  "",  {})>>

Layout3 ==
    <<Position("N", 1, FALSE, FALSE, FALSE, FALSE, TRUE,  FALSE, "",  {}),
      Position("W", 2, FALSE, TRUE,  FALSE, FALSE, FALSE, FALSE, "",  {}),
      Position("S", 3, TRUE,  TRUE,  FALSE, TRUE,  FALSE, FALSE, "",  {}),
      Position("T", 4, TRUE,  FALSE, FALSE, FALSE, FALSE, FALSE, "",  {})>>

\* availablePositions per staff name
Eligibility1 == [a |-> {"Q", "W", "S", "T"}, b |-> {"Q", "W", "S", "T"}]

Eligibility2 == [a |-> {"Q", "W", "T"}, b |-> {"Q", "S", "P"}]

Eligibility3 == [a |-> {"S"}, b |-> {"W", "S", "T"}]

Eligibility4 == [a |-> {"Q"}, b |-> {"Q", "W", "S", "T"}]

\* The position tables with the staff eligibilities they are run with
StaffingMenu ==
    ({Layout1} \X {Eligibility1, Eligibility4})
    \cup ({Layout2} \X {Eligibility1, Eligibility2})
    \cup ({Layout3} \X {Eligibility1, Eligibility3})

\* The leave entries of the store: <<staff name, leave kind, date>>
LeaveMenu ==
    {{}}
    \cup {{<<"a", kind, 2>>} : kind \in {"yukyu", "furikyu", "daikyu"}}
    \cup {{<<"a", "yukyu", 8>>}, {<<"b", "furikyu", 1>>}, {<<"b", "daikyu", 5>>}}

\* The special-assignment dates of the store: <<staff name, position name, date>>
SpecialMenu ==
    {{}}
    \cup {{<<"a", "N", d>>} : d \in {1, 2, 5, 7}}
    \cup {{<<"b", "N", 2>>}, {<<"a", "Q", 2>>, <<"a", "N", 2>>},
          {<<"a", "N", 1>>, <<"b", "N", 1>>}}

\* getDay() of the first day of the month, and the provider's holidays
Calendars ==
    {[startDow |-> 1, holidays |-> {}],
     [startDow |-> 1, holidays |-> {1}],
     [startDow |-> 4, holidays |-> {}]}

\* The staff collection built from the menus' entries
StaffOf(elig, leave, special) ==
    [n \in 1 .. 2 |->
        LET name == <<"a", "b">>[n]
        IN  Staff(name, elig[name],
                  {d \in dates : <<name, "yukyu", d>> \in leave},
                  {d \in dates : <<name, "furikyu", d>> \in leave},
                  {d \in dates : <<name, "daikyu", d>> \in leave},
                  [pn \in {e[2] : e \in {x \in special : x[1] = name}} |->
                      {e[3] : e \in {x \in special : x[1] = name /\ x[2] = pn}}],
                  {})]

\* The leave entries and special-assignment dates a run has together
AbsenceMenu ==
    (LeaveMenu \X {{}})
    \cup ({{}} \X SpecialMenu)
    \cup ({{<<"a", "yukyu", 2>>}, {<<"b", "furikyu", 1>>}}
            \X {{<<"a", "N", 2>>}, {<<"a", "N", 1>>, <<"b", "N", 1>>}})

\* Positions with department tags: N and T belong to "lab", W to "ward"
Layout4 ==
    <<Position("N", 1, FALSE, FALSE, FALSE, FALSE, TRUE,  FALSE, "",  {"lab"}),
      Position("T", 2, TRUE,  FALSE, FALSE, FALSE, FALSE, FALSE, "",  {"lab"}),
      Position("W", 3, TRUE,  FALSE, FALSE, FALSE, FALSE, FALSE, "",  {"ward"})>>

\* Staff with department tags: a belongs to "lab", b to "ward"
DepartmentStaff(special) ==
    [n \in 1 .. 2 |->
        [StaffOf(Eligibility1, {}, special)[n] EXCEPT
            !.departments = IF n = 1 THEN {"lab"} ELSE {"ward"}]]

\* The requests that name a department
DepartmentScenarios ==
    {[positions |-> Layout4, staff |-> DepartmentStaff(special),
      startDow |-> cal.startDow, holidays |-> cal.holidays, department |-> "lab"] :
        special \in {{}, {<<"b", "N", 2>>}, {<<"a", "N", 2>>}, {<<"b", "T", 3>>}},
        cal \in Calendars}

\* A position table whose depended-on position Q takes one staff member and
\* whose quota position S takes several
Layout5 ==
    <<Position("Q", 1, TRUE,  FALSE, FALSE, FALSE, FALSE, FALSE, "",  {}),
      Position("P", 2, TRUE,  FALSE, FALSE, FALSE, FALSE, FALSE, "Q", {}),
      Position("S", 3, FALSE, FALSE, TRUE,  TRUE,  FALSE, FALSE, "",  {})>>

Eligibility5 == [a |-> {"Q"}, b |-> {"Q", "S"}]

\* A position table of two ordinary positions that take one staff member each
Layout6 ==
    <<Position("T", 1, TRUE,  FALSE, FALSE, FALSE, FALSE, FALSE, "",  {}),
      Position("U", 2, TRUE,  FALSE, FALSE, FALSE, FALSE, FALSE, "",  {})>>

Eligibility6 == [a |-> {"T", "U"}, b |-> {"T"}]

\* The runs whose pool the planning phases do not empty
FallbackScenarios ==
    {[positions |-> staffing[1], staff |-> StaffOf(staffing[2], staffing[3], {}),
      startDow |-> cal.startDow, holidays |-> cal.holidays, department |-> ""] :
        staffing \in {<<Layout5, Eligibility5, {}>>,
                      <<Layout5, Eligibility5, {<<"a", "yukyu", 3>>, <<"b", "furikyu", 2>>}>>,
                      <<Layout5, Eligibility5, {<<"b", "furikyu", 3>>}>>,
                      <<Layout6, Eligibility6, {}>>},
        cal \in Calendars}

Scenarios ==
    {[positions |-> staffing[1], staff |-> StaffOf(staffing[2], absence[1], absence[2]),
      startDow |-> cal.startDow, holidays |-> cal.holidays, department |-> ""] :
        staffing \in StaffingMenu, absence \in AbsenceMenu, cal \in Calendars}
    \cup DepartmentScenarios
    \cup FallbackScenarios

\* filteredPositions / filteredStaffList: the records tagged with the department
InDepartment(recs, dept) ==
    IF dept = "" THEN recs
    ELSE KeepIdx(recs, {n \in DOMAIN recs : dept \in recs[n].departments}, 1)

\* filteredPositions.sort((a, b) => a.priority - b.priority)
SortedPositions(recs) == SortByKey(recs, [n \in DOMAIN recs |-> recs[n].priority])

\* No business-day call on its own is made during a run
QueryIdle ==
    /\ day = 0
    /\ asked = "none"
    /\ answer = << >>

\* No request to the edit endpoint is made during a run
EditIdle ==
    /\ updates = << >>
    /\ shiftFields = {}
    /\ callbacks = << >>
    /\ response = "idle"

\* The rotation variables of a run of roster generation, which has no rotation run
RotationIdle ==
    /\ request = << >>
    /\ at = "idle"
    /\ year = << >>
    /\ mon = << >>
    /\ monthRange = << >>
    /\ storeRead = FALSE
    /\ staffDocs = {}
    /\ nightPositions = << >>
    /\ nichokuPositions = << >>
    /\ counters = << >>
    /\ staffCounters = << >>
    /\ staffLastAssigned = << >>
    /\ countersBackup = << >>
    /\ staffCountersBackup = << >>
    /\ staffLastAssignedBackup = << >>
    /\ attemptsMade = 0
    /\ assignmentsForDate = << >>
    /\ assignedDepts = {}
    /\ monthIndex = 1
    /\ rowDate = 0
    /\ posIndex = 1
    /\ worksheet = << >>

Init ==
    \E sc \in Scenarios :
    \E sorted \in {SortedPositions(InDepartment(sc.positions, sc.department))} :
        /\ department = sc.department
        /\ staffList = sc.staff
        /\ filteredStaffList = InDepartment(sc.staff, sc.department)
        /\ normalPositions = sorted
        /\ startDow = sc.startDow
        /\ holidays = sc.holidays
        /\ providerOk = TRUE
        /\ preCalcSpecialHolidays = PreCalcFrom(<< >>, sorted, sc.staff, 1)
        /\ i = 1
        /\ pc = "date"
        /\ k = 1
        /\ weeklyAssignments = << >>
        /\ prevWeeklyAssignments = << >>
        /\ currentWeekStart = << >>
        /\ staffAssignments = << >>
        /\ staffSeveralCounts =
              [id \in {sc.positions[n].id : n \in DOMAIN sc.positions} |->
                  [s \in {sc.staff[n].name : n \in DOMAIN sc.staff} |-> 0]]
        /\ normalCounts =
              [id \in {sc.positions[n].id : n \in DOMAIN sc.positions} |->
                  [s \in {sc.staff[n].name : n \in DOMAIN sc.staff} |-> 0]]
        /\ specialHolidays = << >>
        /\ providerCalls = 0
        /\ specialAssigned = {}
        /\ specialAssignedTomorrowOnly = {}
        /\ preservedAssignments = << >>
        /\ attempt = 0
        /\ assignmentValid = FALSE
        /\ availableStaff = {}
        /\ dailyAssigned = {}
        /\ dailyAssignedSeveral = {}
        /\ RotationIdle
        /\ QueryIdle
        /\ EditIdle

Next ==
    \/ DateNonWorking
    \/ DateWorking
    \/ AttemptStart
    \/ SeveralStep
    \/ DependencyStep
    \/ WeeklyStep
    \/ DependedStep
    \/ StandardStep
    \/ FallbackAndCheck
    \/ LoopExit

Spec == Init /\ [][Next]_vars

---------------------------------------------------------------------------
\* Rotation run: POST of src/app/api/night/route.ts.  A request is followed
\* from its body to the response: the month check, getMonthRange's loop, the
\* store reads, then per month and per date the attempts of the experience
\* loop, each position of assignNightShift / assignNichokuShift being one
\* step.  Every position of the model has a valid outputCell.

\* const MAX_ATTEMPTS = 3
MAX_ATTEMPTS == 3

\* the literal 5 of `totalExperience >= 5`
minExperience == 5

\* the literal 3 of `differenceInCalendarDays(date, lastAssigned) >= 3`
minGapDays == 3

\* Number of days of every month of a rotation run in the model
\* (getDatesInMonth yields 28..31 in the program)
DaysInMonth == 3

\* Number of months of getMonthRange's array the model keeps: every request
\* of the model whose end month is finite has fewer months than this
MaxRange == 3

\* The variables of roster generation, which a rotation run never touches
roster == <<department, filteredStaffList, normalPositions, preCalcSpecialHolidays, i, pc, k,
            weeklyAssignments, prevWeeklyAssignments, currentWeekStart,
            staffAssignments, staffSeveralCounts, normalCounts, specialHolidays,
            providerCalls,
            specialAssigned, specialAssignedTomorrowOnly, preservedAssignments,
            attempt, assignmentValid, availableStaff, dailyAssigned,
            dailyAssignedSeveral>>

\* The department tags the rotation code names
NIKOTAI == "nikotai"
TAIKI == "taiki"
SEIRI == "seiri"
YUKETSU == "yuketsu"
BYORI == "byori"
SEIKAGAKU == "seikagaku"
KETSUEKI == "ketsueki"
BISEIBUTSU == "biseibutsu"
YAKIN == "yakin"
NICHOKU == "nichoku"
NICHOKU_SHU == "nichokuShu"
NICHOKU_FUKU == "nichokuFuku"

\* A JavaScript number: a finite one, NaN or Infinity
Num(n) == [kind |-> "finite", n |-> n]

NaN == [kind |-> "NaN", n |-> 0]

Infinity == [kind |-> "Infinity", n |-> 0]

\* Number(text) of one part of "YYYY-MM".split("-")
Number(part) ==
    CASE part = "2025" -> Num(2025)
      [] part = "00" -> Num(0)
      [] part = "01" -> Num(1)
      [] part = "02" -> Num(2)
      [] part = "Infinity" -> Infinity
      [] OTHER -> NaN

\* const [year, month] = text.split("-").map(Number): a part the text lacks
\* is undefined, which compares and negates as NaN does
Part(text, n) == IF n <= Len(text) THEN Number(text[n]) ELSE NaN

\* a < b
Less(a, b) == a.kind = "finite" /\ (b.kind = "Infinity" \/ (b.kind = "finite" /\ a.n < b.n))

\* a === b
StrictEqual(a, b) == a.kind # "NaN" /\ a = b

\* !a
Falsy(a) == a.kind = "NaN" \/ a = Num(0)

\* a + 1
Inc(a) == IF a.kind = "finite" THEN Num(a.n + 1) ELSE a

\* getMonthRange: year < endYear || (year === endYear && mon <= endMon)
MonthRangeCondition ==
    \E endYear \in {Part(request.endMonth, 1)}, endMon \in {Part(request.endMonth, 2)} :
        \/ Less(year, endYear)
        \/ StrictEqual(year, endYear) /\ (Less(mon, endMon) \/ StrictEqual(mon, endMon))

\* getDatesInMonth(monthStr) of a month getMonthRange pushed.  The text
\* `${year}-${mon padded}` splits back into the numbers it was made of, so
\* the month is kept as the pair <<year, mon>>.  Day 1 of the model's
\* calendar is the first day of 2025-01.
getDatesInMonth(month) ==
    IF \/ Falsy(month[1]) \/ Falsy(month[2])
       \/ Less(month[2], Num(1)) \/ Less(Num(12), month[2])
       \/ month[1].kind # "finite"
    THEN << >>
    ELSE [n \in 1 .. DaysInMonth |->
            ((month[1].n - 2025) * 12 + month[2].n - 1) * DaysInMonth + n]

\* weekendHoliday || japaneseHoliday of a date
IsHoliday(d) == getDay(d) = 0 \/ getDay(d) = 6 \/ isJapaneseHoliday(d)

\* candidateDepts: the departments of the staff tagged rotating or standby,
\* without the rotation and on-call tags
candidateDepts ==
    UNION {staffList[n].departments \ {NICHOKU_SHU, NICHOKU_FUKU, NIKOTAI, TAIKI} :
              n \in {x \in DOMAIN staffList :
                        staffList[x].departments \cap {NIKOTAI, TAIKI} # {}}}

\* The keys of the smallest count: the candidates Math.random() picks among
Least(keys, counter) ==
    {c \in keys : \A o \in keys : Lookup(counter, c, 0) <= Lookup(counter, o, 0)}

\* assignNightShift: the counter key of a department for a position
NightKey(pos, dept) ==
    <<IF IsHoliday(rowDate + 1) THEN "preHoliday" ELSE "plain", pos.name, dept>>

\* candidateInfo's departments without the exclusion on dates next to a holiday
NightCandidatesOnAnyDate ==
    {dept \in candidateDepts : ~(dept # SEIRI /\ dept \in assignedDepts)}

\* candidateInfo's departments without the exclusion of the departments
\* already used on the date
NightCandidatesWithRepeats ==
    {dept \in candidateDepts :
        ~((IsHoliday(rowDate + 1) \/ IsHoliday(rowDate)) /\ dept = BISEIBUTSU)}

\* assignNightShift: candidateInfo's departments
NightCandidates ==
    {dept \in candidateDepts :
        /\ ~((IsHoliday(rowDate + 1) \/ IsHoliday(rowDate)) /\ dept = BISEIBUTSU)
        /\ ~(dept # SEIRI /\ dept \in assignedDepts)}

\* A flat increment of 1, whatever the department
FlatIncrement(dept) == 1

\* assignNightShift: the increment of the chosen department's counter
NightIncrement(dept) == IF dept = SEIRI THEN 1 ELSE IF dept = YUKETSU THEN 3 ELSE 2

\* assignNightShift: eligibleStaff
NightEligible(pos, selectedDept) ==
    {s \in Range(staffList) :
        /\ selectedDept \in s.departments
        /\ pos.name \in s.departments
        /\ (s.id \notin DOMAIN staffLastAssigned
              \/ rowDate - staffLastAssigned[s.id] >= minGapDays)}

\* assignNichokuShift: allowedDepts of a position
allowedDepts(pos) ==
    IF pos.name = NICHOKU_FUKU THEN {SEIRI, BYORI}
    ELSE IF pos.name = NICHOKU_SHU THEN {BYORI, YUKETSU, SEIKAGAKU, KETSUEKI}
    ELSE candidateDepts

\* assignNichokuShift: the increment of the chosen department's counter
NichokuIncrement(pos, dept) ==
    IF dept = SEIRI THEN 1
    ELSE IF pos.name = NICHOKU_FUKU /\ dept = BYORI THEN 4
    ELSE IF dept = YUKETSU THEN 3
    ELSE 2

\* assignNichokuShift: eligibleStaff
NichokuEligible(pos, selectedDept) ==
    {s \in Range(staffList) : selectedDept \in s.departments /\ pos.name \in s.departments}

\* assignments[pos.id] = "未配置"
LeaveUnfilled(pos) ==
    /\ assignmentsForDate' = Store(assignmentsForDate, pos.id, UNFILLED)
    /\ UNCHANGED <<staffCounters, staffLastAssigned, staffDocs>>

\* The staff choice both shifts share: the least-counted eligible staff member
\* is recorded in the counters, in the assignment and, by updateDoc with
\* arrayUnion, in the store
ChooseStaff(pos, selectedDept, eligibleStaff) ==
    IF eligibleStaff = {} THEN LeaveUnfilled(pos)
    ELSE \E staffKey \in Least({<<selectedDept, s.id>> : s \in eligibleStaff}, staffCounters) :
         \E selectedStaff \in {s \in eligibleStaff : s.id = staffKey[2]} :
            /\ staffCounters' = Store(staffCounters, staffKey, Lookup(staffCounters, staffKey, 0) + 1)
            /\ staffLastAssigned' = Store(staffLastAssigned, selectedStaff.id, rowDate)
            /\ assignmentsForDate' = Store(assignmentsForDate, pos.id, selectedStaff.name)
            /\ staffDocs' = staffDocs \cup {<<selectedStaff.id, pos.name, rowDate>>}

\* An attempt that runs the on-call rotation on every date
AfterNightOnCallAlways ==
    IF Len(nichokuPositions) > 0 THEN "nichoku" ELSE "check"

\* Where an attempt goes after assignNightShift
AfterNight ==
    IF IsHoliday(rowDate) /\ Len(nichokuPositions) > 0 THEN "nichoku" ELSE "check"

\* POST: `if (!startMonth || !endMonth)` answers 400, otherwise getMonthRange
\* starts from the start month's parts
RequestCheck ==
    /\ at = "request"
    /\ IF request.startMonth = << >> \/ request.endMonth = << >>
       THEN at' = "error" /\ UNCHANGED <<year, mon>>
       ELSE /\ at' = "range"
            /\ year' = Part(request.startMonth, 1)
            /\ mon' = Part(request.startMonth, 2)
    /\ UNCHANGED <<request, monthRange, storeRead, staffDocs, nightPositions,
                   nichokuPositions, counters, staffCounters, staffLastAssigned,
                   countersBackup, staffCountersBackup, staffLastAssignedBackup,
                   attemptsMade, assignmentsForDate, assignedDepts, monthIndex, rowDate,
                   posIndex, worksheet, staffList, startDow, holidays, providerOk, roster, calendarQuery, edit>>

\* getMonthRange: one iteration of the while loop.  The array keeps MaxRange
\* months; past them the loop is followed through mon alone.
MonthRangeStep ==
    /\ at = "range"
    /\ MonthRangeCondition
    /\ monthRange' = IF Len(monthRange) < MaxRange
                     THEN Append(monthRange, <<year, mon>>)
                     ELSE monthRange
    /\ IF Less(Num(12), Inc(mon))
       THEN /\ mon' = Num(1)
            /\ year' = IF Len(monthRange) < MaxRange THEN Inc(year) ELSE year
       ELSE /\ mon' = Inc(mon)
            /\ UNCHANGED year
    /\ UNCHANGED <<request, at, storeRead, staffDocs, nightPositions,
                   nichokuPositions, counters, staffCounters, staffLastAssigned,
                   countersBackup, staffCountersBackup, staffLastAssignedBackup,
                   attemptsMade, assignmentsForDate, assignedDepts, monthIndex, rowDate,
                   posIndex, worksheet, staffList, startDow, holidays, providerOk, roster, calendarQuery, edit>>

\* getMonthRange returns; `if (monthRange.length === 0)` answers 400
MonthRangeReturn ==
    /\ at = "range"
    /\ ~MonthRangeCondition
    /\ at' = IF Len(monthRange) = 0 THEN "error" ELSE "read"
    /\ UNCHANGED <<request, year, mon, monthRange, storeRead, staffDocs, nightPositions,
                   nichokuPositions, counters, staffCounters, staffLastAssigned,
                   countersBackup, staffCountersBackup, staffLastAssignedBackup,
                   attemptsMade, assignmentsForDate, assignedDepts, monthIndex, rowDate,
                   posIndex, worksheet, staffList, startDow, holidays, providerOk, roster, calendarQuery, edit>>

\* A position document of the rotation
NightPosition(name, priority, departments) ==
    [id |-> name, name |-> name, priority |-> priority, departments |-> departments]

\* A staff document of the rotation; experience is <<n>>, or << >> when the
\* document has none
NightStaff(name, departments, experience) ==
    [id |-> name, name |-> name, departments |-> departments, experience |-> experience]

\* The store's collections a run can find
Stores ==
    {[positions |-> <<NightPosition(NICHOKU_SHU, 1, {NICHOKU}), NightPosition("N1", 1, {YAKIN})>>,
      staff |-> <<NightStaff("x", {NIKOTAI, KETSUEKI, "N1", NICHOKU_SHU}, <<2>>),
                  NightStaff("y", {TAIKI, KETSUEKI, "N1"}, <<5>>)>>],
     [positions |-> <<NightPosition("N1", 2, {YAKIN}), NightPosition(NICHOKU_FUKU, 1, {NICHOKU})>>,
      staff |-> <<NightStaff("x", {NIKOTAI, SEIRI, "N1", NICHOKU_FUKU}, <<3>>),
                  NightStaff("z", {SEIRI, "N1"}, << >>),
                  NightStaff("w", {YUKETSU, "N1"}, <<9>>)>>],
     [positions |-> <<NightPosition("N1", 1, {YAKIN}), NightPosition(NICHOKU_FUKU, 2, {NICHOKU})>>,
      staff |-> <<NightStaff("u", {NIKOTAI, SEIRI, YUKETSU, BYORI, BISEIBUTSU, "N1", NICHOKU_FUKU}, <<5>>)>>],
     [positions |-> <<NightPosition("N2", 2, {YAKIN}), NightPosition("N1", 1, {YAKIN})>>,
      staff |-> <<NightStaff("v", {TAIKI, SEIRI, KETSUEKI, "N1"}, <<5>>)>>]}

\* positions.filter((pos) => pos.departments?.includes(tag)), sorted by priority
RotationPositions(positions, tag) ==
    SortedPositions(KeepIdx(positions, {n \in DOMAIN positions : tag \in positions[n].departments}, 1))

\* POST: both collections are read, the positions split and sorted, the staff
\* filtered to the rotating, standby and physiology tags
ReadStore ==
    /\ at = "read"
    /\ \E store \in Stores :
        /\ nightPositions' = RotationPositions(store.positions, YAKIN)
        /\ nichokuPositions' = RotationPositions(store.positions, NICHOKU)
        /\ staffList' = KeepIdx(store.staff,
                                {n \in DOMAIN store.staff :
                                    store.staff[n].departments \cap {NIKOTAI, TAIKI, SEIRI} # {}}, 1)
    /\ storeRead' = TRUE
    /\ at' = "month"
    /\ UNCHANGED <<request, year, mon, monthRange, staffDocs, counters, staffCounters,
                   staffLastAssigned, countersBackup, staffCountersBackup,
                   staffLastAssignedBackup, attemptsMade, assignmentsForDate, assignedDepts,
                   monthIndex, rowDate, posIndex, worksheet, startDow, holidays, providerOk,
                   roster, calendarQuery, edit>>

\* for (const monthStr of monthRange): a month without dates is skipped, the
\* loop ends after the last month
MonthStart ==
    /\ at = "month"
    /\ IF monthIndex > Len(monthRange)
       THEN at' = "report" /\ UNCHANGED <<monthIndex, rowDate>>
       ELSE \E dates_ \in {getDatesInMonth(monthRange[monthIndex])} :
              IF Len(dates_) = 0
              THEN monthIndex' = monthIndex + 1 /\ UNCHANGED <<at, rowDate>>
              ELSE at' = "date" /\ rowDate' = dates_[1] /\ UNCHANGED monthIndex
    /\ UNCHANGED <<request, year, mon, monthRange, storeRead, staffDocs, nightPositions,
                   nichokuPositions, counters, staffCounters, staffLastAssigned,
                   countersBackup, staffCountersBackup, staffLastAssignedBackup,
                   attemptsMade, assignmentsForDate, assignedDepts, posIndex, worksheet,
                   staffList, startDow, holidays, providerOk, roster, calendarQuery, edit>>

\* for (const date of dates): let attempts = 0 (attemptsMade); let assignmentsForDate = {}
DateStart ==
    /\ at = "date"
    /\ attemptsMade' = 0
    /\ assignmentsForDate' = << >>
    /\ at' = "attempt"
    /\ UNCHANGED <<request, year, mon, monthRange, storeRead, staffDocs, nightPositions,
                   nichokuPositions, counters, staffCounters, staffLastAssigned,
                   countersBackup, staffCountersBackup, staffLastAssignedBackup,
                   assignedDepts, monthIndex, rowDate, posIndex, worksheet,
                   staffList, startDow, holidays, providerOk, roster, calendarQuery, edit>>

\* A copy that keeps no entry
EmptyMap(map) == << >>

\* new Map(map): a map of its own with the entries of map
CopyOfMap(map) == [key \in DOMAIN map |-> map[key]]

\* while (attempts < MAX_ATTEMPTS): the three maps are copied and
\* assignNightShift starts with empty assignments
AttemptBegin ==
    /\ at = "attempt"
    /\ attemptsMade < MAX_ATTEMPTS
    /\ countersBackup' = CopyOfMap(counters)
    /\ staffCountersBackup' = CopyOfMap(staffCounters)
    /\ staffLastAssignedBackup' = CopyOfMap(staffLastAssigned)
    /\ assignmentsForDate' = << >>
    /\ assignedDepts' = {}
    /\ posIndex' = 1
    /\ at' = IF Len(nightPositions) > 0 THEN "night" ELSE AfterNight
    /\ UNCHANGED <<request, year, mon, monthRange, storeRead, staffDocs, nightPositions,
                   nichokuPositions, counters, staffCounters, staffLastAssigned,
                   attemptsMade, monthIndex, rowDate, worksheet,
                   staffList, startDow, holidays, providerOk, roster, calendarQuery, edit>>

\* assignNightShift: one position of `for (const pos of positions)`
NightStep ==
    /\ at = "night"
    /\ \E pos \in {nightPositions[posIndex]}, candidates \in {NightCandidates} :
        IF candidates = {}
        THEN LeaveUnfilled(pos) /\ UNCHANGED <<counters, assignedDepts>>
        ELSE \E deptKey \in Least({NightKey(pos, dept) : dept \in candidates}, counters) :
             \E selectedDept \in {deptKey[3]} :
                /\ counters' = Store(counters, deptKey,
                                     Lookup(counters, deptKey, 0) + NightIncrement(selectedDept))
                /\ assignedDepts' = IF selectedDept # SEIRI
                                    THEN assignedDepts \cup {selectedDept}
                                    ELSE assignedDepts
                /\ ChooseStaff(pos, selectedDept, NightEligible(pos, selectedDept))
    /\ IF posIndex < Len(nightPositions)
       THEN posIndex' = posIndex + 1 /\ UNCHANGED at
       ELSE posIndex' = 1 /\ at' = AfterNight
    /\ UNCHANGED <<request, year, mon, monthRange, storeRead, nightPositions,
                   nichokuPositions, countersBackup, staffCountersBackup,
                   staffLastAssignedBackup, attemptsMade, monthIndex, rowDate, worksheet,
                   staffList, startDow, holidays, providerOk, roster, calendarQuery, edit>>

\* assignNichokuShift: one position of `for (const pos of positions)`
NichokuStep ==
    /\ at = "nichoku"
    /\ \E pos \in {nichokuPositions[posIndex]} :
       \E candidates \in {candidateDepts \cap allowedDepts(pos)} :
        IF candidates = {}
        THEN LeaveUnfilled(pos) /\ UNCHANGED counters
        ELSE \E deptKey \in Least({<<"nichoku", pos.name, dept>> : dept \in candidates}, counters) :
             \E selectedDept \in {deptKey[3]} :
                /\ counters' = Store(counters, deptKey,
                                     Lookup(counters, deptKey, 0) + NichokuIncrement(pos, selectedDept))
                /\ ChooseStaff(pos, selectedDept, NichokuEligible(pos, selectedDept))
    /\ IF posIndex < Len(nichokuPositions)
       THEN posIndex' = posIndex + 1 /\ UNCHANGED at
       ELSE posIndex' = 1 /\ at' = "check"
    /\ UNCHANGED <<request, year, mon, monthRange, storeRead, nightPositions,
                   nichokuPositions, countersBackup, staffCountersBackup,
                   staffLastAssignedBackup, attemptsMade, assignedDepts, monthIndex, rowDate,
                   worksheet, staffList, startDow, holidays, providerOk, roster, calendarQuery, edit>>

\* staffList.find(s => s.name === staffName): <<staff>>, or << >> when none
FindStaff(staffName) ==
    LET hits == {n \in DOMAIN staffList : staffList[n].name = staffName}
    IN  IF hits = {} THEN << >>
        ELSE <<staffList[CHOOSE n \in hits : \A o \in hits : n <= o]>>

\* What one assignment adds to totalExperience
ExperienceOf(staffName) ==
    IF staffName = UNFILLED THEN 0
    ELSE \* typeof staff.experience === "number"
         LET found == FindStaff(staffName)
         IN  IF found = << >> THEN 0
             ELSE IF found[1].experience = << >> THEN 0
             ELSE found[1].experience[1]

\* for (const posId in assignmentsForDate) totalExperience += ...
RECURSIVE SumExperience(_, _)
SumExperience(assignments, ids) ==
    IF ids = {} THEN 0
    ELSE LET id == CHOOSE x \in ids : TRUE
         IN  ExperienceOf(assignments[id]) + SumExperience(assignments, ids \ {id})

totalExperience == SumExperience(assignmentsForDate, DOMAIN assignmentsForDate)

\* An experience check that accepts every attempt
AcceptedAlways(total) == TRUE

\* if (totalExperience >= 5) break
Accepted(total) == total >= minExperience

\* The end of an attempt: it is accepted, or the three maps are put back and
\* attempts is incremented, which ends the loop at MAX_ATTEMPTS
ExperienceCheck ==
    /\ at = "check"
    /\ IF Accepted(totalExperience)
       THEN /\ at' = "row"
            /\ UNCHANGED <<counters, staffCounters, staffLastAssigned, attemptsMade>>
       ELSE /\ counters' = countersBackup
            /\ staffCounters' = staffCountersBackup
            /\ staffLastAssigned' = staffLastAssignedBackup
            /\ attemptsMade' = attemptsMade + 1
            /\ at' = IF attemptsMade + 1 < MAX_ATTEMPTS THEN "attempt" ELSE "row"
    /\ UNCHANGED <<request, year, mon, monthRange, storeRead, staffDocs, nightPositions,
                   nichokuPositions, countersBackup, staffCountersBackup,
                   staffLastAssignedBackup, assignmentsForDate, assignedDepts,
                   monthIndex, rowDate, posIndex, worksheet,
                   staffList, startDow, holidays, providerOk, roster, calendarQuery, edit>>

\* The ids of the positions the worksheet has a column for
RotationIds ==
    {nightPositions[n].id : n \in DOMAIN nightPositions}
        \cup {nichokuPositions[n].id : n \in DOMAIN nichokuPositions}

\* The row of the date is written (assignmentsForDate[pos.id] || "") and the
\* date loop goes on
WriteRow ==
    /\ at = "row"
    /\ worksheet' = Store(worksheet, rowDate,
                          [id \in RotationIds |-> Lookup(assignmentsForDate, id, BLANK)])
    /\ IF rowDate < Last(getDatesInMonth(monthRange[monthIndex]))
       THEN rowDate' = rowDate + 1 /\ at' = "date" /\ UNCHANGED monthIndex
       ELSE monthIndex' = monthIndex + 1 /\ at' = "month" /\ UNCHANGED rowDate
    /\ UNCHANGED <<request, year, mon, monthRange, storeRead, staffDocs, nightPositions,
                   nichokuPositions, counters, staffCounters, staffLastAssigned,
                   countersBackup, staffCountersBackup, staffLastAssignedBackup,
                   attemptsMade, assignmentsForDate, assignedDepts, posIndex,
                   staffList, startDow, holidays, providerOk, roster, calendarQuery, edit>>

\* workbook.xlsx.writeBuffer() resolves and the report is the response
ReportWritten ==
    /\ at = "report"
    /\ at' = "done"
    /\ UNCHANGED <<request, year, mon, monthRange, storeRead, staffDocs, nightPositions,
                   nichokuPositions, counters, staffCounters, staffLastAssigned,
                   countersBackup, staffCountersBackup, staffLastAssignedBackup,
                   attemptsMade, assignmentsForDate, assignedDepts, monthIndex, rowDate,
                   posIndex, worksheet, staffList, startDow, holidays, providerOk, roster, calendarQuery, edit>>

\* workbook.xlsx.writeBuffer() rejects: POST has no try/catch, the run fails
\* without a report
ReportWriteFails ==
    /\ at = "report"
    /\ at' = "failed"
    /\ UNCHANGED <<request, year, mon, monthRange, storeRead, staffDocs, nightPositions,
                   nichokuPositions, counters, staffCounters, staffLastAssigned,
                   countersBackup, staffCountersBackup, staffLastAssignedBackup,
                   attemptsMade, assignmentsForDate, assignedDepts, monthIndex, rowDate,
                   posIndex, worksheet, staffList, startDow, holidays, providerOk, roster, calendarQuery, edit>>

\* The month texts of a request body, as "YYYY-MM".split("-") reads them;
\* << >> is a month the body lacks
MonthTexts ==
    [jan |-> <<"2025", "01">>, feb |-> <<"2025", "02">>, zero |-> <<"2025", "00">>,
     word |-> <<"abc">>, endless |-> <<"Infinity", "01">>, none |-> << >>]

\* The request bodies of the model
Requests ==
    {[startMonth |-> MonthTexts.jan, endMonth |-> MonthTexts.feb],
     [startMonth |-> MonthTexts.jan, endMonth |-> MonthTexts.jan],
     [startMonth |-> MonthTexts.none, endMonth |-> MonthTexts.jan],
     [startMonth |-> MonthTexts.jan, endMonth |-> MonthTexts.none],
     [startMonth |-> MonthTexts.feb, endMonth |-> MonthTexts.jan],
     [startMonth |-> MonthTexts.word, endMonth |-> MonthTexts.jan],
     [startMonth |-> MonthTexts.zero, endMonth |-> MonthTexts.jan],
     [startMonth |-> MonthTexts.jan, endMonth |-> MonthTexts.endless]}

\* The calendar and the holiday provider of a rotation run
NightCalendars ==
    {[startDow |-> 5, holidays |-> {}, providerOk |-> TRUE],
     [startDow |-> 1, holidays |-> {2}, providerOk |-> TRUE],
     [startDow |-> 1, holidays |-> {2}, providerOk |-> FALSE]}

\* The roster variables of a rotation run, which has no roster generation
RosterIdle ==
    /\ department = ""
    /\ filteredStaffList = << >>
    /\ normalPositions = << >>
    /\ preCalcSpecialHolidays = << >>
    /\ i = 1
    /\ pc = "idle"
    /\ k = 1
    /\ weeklyAssignments = << >>
    /\ prevWeeklyAssignments = << >>
    /\ currentWeekStart = << >>
    /\ staffAssignments = << >>
    /\ staffSeveralCounts = << >>
    /\ normalCounts = << >>
    /\ specialHolidays = << >>
    /\ providerCalls = 0
    /\ specialAssigned = {}
    /\ specialAssignedTomorrowOnly = {}
    /\ preservedAssignments = << >>
    /\ attempt = 0
    /\ assignmentValid = FALSE
    /\ availableStaff = {}
    /\ dailyAssigned = {}
    /\ dailyAssignedSeveral = {}

NightInit ==
    \E req \in Requests, cal \in NightCalendars :
        /\ request = req
        /\ at = "request"
        /\ year = NaN
        /\ mon = NaN
        /\ monthRange = << >>
        /\ storeRead = FALSE
        /\ staffDocs = {}
        /\ staffList = << >>
        /\ nightPositions = << >>
        /\ nichokuPositions = << >>
        /\ counters = << >>
        /\ staffCounters = << >>
        /\ staffLastAssigned = << >>
        /\ countersBackup = << >>
        /\ staffCountersBackup = << >>
        /\ staffLastAssignedBackup = << >>
        /\ attemptsMade = 0
        /\ assignmentsForDate = << >>
        /\ assignedDepts = {}
        /\ monthIndex = 1
        /\ rowDate = 0
        /\ posIndex = 1
        /\ worksheet = << >>
        /\ startDow = cal.startDow
        /\ holidays = cal.holidays
        /\ providerOk = cal.providerOk
        /\ RosterIdle
        /\ QueryIdle
        /\ EditIdle

NightNext ==
    \/ RequestCheck
    \/ MonthRangeStep
    \/ MonthRangeReturn
    \/ ReadStore
    \/ MonthStart
    \/ DateStart
    \/ AttemptBegin
    \/ NightStep
    \/ NichokuStep
    \/ ExperienceCheck
    \/ WriteRow
    \/ ReportWritten
    \/ ReportWriteFails

NightSpec == NightInit /\ [][NightNext]_vars

\* POST runs on one thread and every await of the model's steps settles, so
\* a request that can take a step takes one
FairNightSpec == NightSpec /\ WF_vars(NightNext)

---------------------------------------------------------------------------
\* getNextBusinessDay and getPreviousBusinessDay on their own: a calendar and
\* a date are drawn, and each step is one call.

\* The dates the functions are called with
QueryDays == 1 .. 18

\* The holiday sets of the model's calendars: none, one day, and five days in
\* a row (the working days of a week when getDay() of day 1 is 1) with none,
\* one or two days behind the weekend that follows them
HolidaySets ==
    {{}, {3}} \cup {(8 .. 12) \cup more : more \in {{}, {15}, {15, 16}}}

\* Line 104-117: one call of getNextBusinessDay
AskNext ==
    /\ \E d \in QueryDays :
          /\ day' = d
          /\ answer' = getNextBusinessDay(d)
    /\ asked' = "next"
    /\ UNCHANGED <<staffList, startDow, holidays, providerOk, roster, rotation, edit>>

\* Line 123-135: one call of getPreviousBusinessDay
AskPrevious ==
    /\ \E d \in QueryDays :
          /\ day' = d
          /\ answer' = getPreviousBusinessDay(d)
    /\ asked' = "previous"
    /\ UNCHANGED <<staffList, startDow, holidays, providerOk, roster, rotation, edit>>

CalendarInit ==
    \E dow \in 0 .. 6, hs \in HolidaySets :
        /\ startDow = dow
        /\ holidays = hs
        /\ providerOk = TRUE
        /\ staffList = << >>
        /\ RosterIdle
        /\ RotationIdle
        /\ QueryIdle
        /\ EditIdle

CalendarNext == AskNext \/ AskPrevious

CalendarSpec == CalendarInit /\ [][CalendarNext]_vars

---------------------------------------------------------------------------
\* The edit endpoint: POST of src/app/api/nightEdit/update/route.ts.  The
\* code from `await request.json()` to the return runs without an await of
\* its own: forEach calls one async callback per entry and shift type, each
\* of which runs up to its first `await updateDoc(...)`, and POST returns.
\* Each callback goes on when the store settles its update.

\* "宿直", the first key of shiftFieldMapping
SHUKUCHOKU == "shukuchoku"

\* Object.keys(shiftFieldMapping): 宿直, 二交代, 日直主, 日直副
ShiftTypes == <<SHUKUCHOKU, NIKOTAI, NICHOKU_SHU, NICHOKU_FUKU>>

\* An UpdateEntry; add and remove hold the staff ids per shift type
\* (addTai / removeTai, addNikutai / removeNikutai, ...)
UpdateEntry(dateStr, add, remove) ==
    [date |-> dateStr,
     add |-> [type \in Range(ShiftTypes) |-> Lookup(add, type, << >>)],
     remove |-> [type \in Range(ShiftTypes) |-> Lookup(remove, type, << >>)]]

\* The updateDoc calls of one callback, in the order its two loops make
\* them: the ids of addList, then those of removeList
UpdateCalls(item, shiftType) ==
    [n \in 1 .. Len(item.add[shiftType]) |-> <<"arrayUnion", item.add[shiftType][n]>>]
        \o [n \in 1 .. Len(item.remove[shiftType]) |-> <<"arrayRemove", item.remove[shiftType][n]>>]

\* updateDoc(staffRef, {[shiftType]: arrayUnion(dateStr)}) and the same with
\* arrayRemove, on the store's fields
Applied(fields, call, shiftType, dateStr) ==
    IF call[1] = "arrayUnion" THEN fields \cup {<<call[2], shiftType, dateStr>>}
    ELSE fields \ {<<call[2], shiftType, dateStr>>}

\* A callback as forEach leaves it: it has made its first updateDoc call and
\* waits for it, or it had no call to make and is done
Started(calls) ==
    [next |-> 1, status |-> IF calls = << >> THEN "done" ELSE "waiting"]

\* request.json() resolves: the loop over updates starts every callback, and
\* POST returns the success response
PostUpdates ==
    /\ response = "pending"
    /\ callbacks' = [cb \in (DOMAIN updates) \X Range(ShiftTypes) |->
                        Started(UpdateCalls(updates[cb[1]], cb[2]))]
    /\ response' = "success"
    /\ UNCHANGED <<updates, shiftFields, staffList, startDow, holidays, providerOk,
                   roster, rotation, calendarQuery>>

\* request.json() rejects: the catch block answers with status 500
BodyUnreadable ==
    /\ response = "pending"
    /\ response' = "error"
    /\ UNCHANGED <<updates, shiftFields, callbacks, staffList, startDow, holidays,
                   providerOk, roster, rotation, calendarQuery>>

\* The store settles the update a callback waits for: the field is changed
\* and the callback makes its next call, or ends behind its last one
UpdateResolves ==
    \E cb \in DOMAIN callbacks :
    \E calls \in {UpdateCalls(updates[cb[1]], cb[2])} :
        /\ callbacks[cb].status = "waiting"
        /\ shiftFields' = Applied(shiftFields, calls[callbacks[cb].next], cb[2],
                                  updates[cb[1]].date)
        /\ callbacks' = [callbacks EXCEPT ![cb] =
                            IF @.next < Len(calls)
                            THEN [next |-> @.next + 1, status |-> "waiting"]
                            ELSE [next |-> @.next, status |-> "done"]]
        /\ UNCHANGED <<updates, response, staffList, startDow, holidays, providerOk,
                       roster, rotation, calendarQuery>>

\* The store rejects the update a callback waits for: the callback's promise
\* rejects, which nothing awaits, and its later calls are never made
UpdateRejects ==
    \E cb \in DOMAIN callbacks :
        /\ callbacks[cb].status = "waiting"
        /\ callbacks' = [callbacks EXCEPT ![cb].status = "failed"]
        /\ UNCHANGED <<updates, shiftFields, response, staffList, startDow, holidays,
                       providerOk, roster, rotation, calendarQuery>>

\* The request bodies of the model
EditRequests ==
    {<< >>,
     <<UpdateEntry(1, (SHUKUCHOKU :> <<"x">>), << >>)>>,
     <<UpdateEntry(1, (SHUKUCHOKU :> <<"x", "y">>) @@ (NIKOTAI :> <<"x">>),
                      (SHUKUCHOKU :> <<"z">>))>>,
     <<UpdateEntry(1, (SHUKUCHOKU :> <<"x">>), << >>),
       UpdateEntry(2, (NICHOKU_FUKU :> <<"y">>), (NICHOKU_SHU :> <<"x">>))>>,
     <<UpdateEntry(2, (SHUKUCHOKU :> <<"x">>) @@ (NIKOTAI :> <<"y">>) @@ (NICHOKU_FUKU :> <<"z">>),
                      (NICHOKU_SHU :> <<"x">>))>>}

\* The shift dates the store holds before the request
EditStores == {{}, {<<"z", SHUKUCHOKU, 1>>, <<"x", NICHOKU_SHU, 2>>}}

EditInit ==
    \E req \in EditRequests, fields \in EditStores :
        /\ updates = req
        /\ shiftFields = fields
        /\ callbacks = << >>
        /\ response = "pending"
        /\ startDow = 0
        /\ holidays = {}
        /\ providerOk = TRUE
        /\ staffList = << >>
        /\ RosterIdle
        /\ RotationIdle
        /\ QueryIdle

EditNext == PostUpdates \/ BodyUnreadable \/ UpdateResolves \/ UpdateRejects

EditSpec == EditInit /\ [][EditNext]_vars

---------------------------------------------------------------------------
\* The roster as the report reads it

\* The date loop stands between two dates (or behind the last) and has left
\* date d: its lists are the ones the report shows
Finished(d) == pc \in {"date", "done"} /\ d \in dates /\ d < i

\* staffAssignments[dateStr][pos.id] of a finished date
FinalList(d, id) == staffAssignments[d][id]

\* The staff names of a list (a list may also hold the marker and blanks)
StaffIn(list) == Range(list) \cap Names

\* The lists the special phase of date d leaves
SpecialLists(d) == SpecialPhase(d).lists

\* The entry the planning phases add first to each position's list on a
\* working day: the one behind the entries of the special phase
Planned(d) ==
    The({[id \in PosIds |-> FinalList(d, id)[Len(sp[id]) + 1]] :
            sp \in {SpecialLists(d)}})

\* A staff record's three leave-date sets
LeaveDates(staff) ==
    staff.holidaysYukyu \cup staff.holidaysFurikyu \cup staff.holidaysDaikyu

\* Saturday, Sunday or holiday, read from the calendar
DayOff(d) == getDay(d) \in {0, 6} \/ d \in holidays

Pos(n) == normalPositions[n]

---------------------------------------------------------------------------
\* C1: a staff member with date d in one of the three leave-date sets is in
\* no position's list of d.
\* The code breaks it: the special phase reads no leave set.
LeaveStaffNeverAssigned ==
    \A d \in dates : \A n \in DOMAIN staffList : \A id \in PosIds :
        (Finished(d) /\ d \in LeaveDates(staffList[n]))
            => staffList[n].name \notin Range(FinalList(d, id))

\* C2: the final list of a position that is not allowMultiple holds at most
\* one entry.  Only staff names are counted here (not the marker, not a
\* blank), which asks less than the claim does.
\* The code breaks it: the weekly-sticky block and the depended-on block
\* both fill a sameStaffWeekly position that another position depends on.
SinglePositionHoldsOneStaff ==
    \A d \in dates : \A n \in DOMAIN normalPositions :
        (Finished(d) /\ ~Pos(n).allowMultiple)
            => Cardinality({m \in DOMAIN FinalList(d, Pos(n).id) :
                              FinalList(d, Pos(n).id)[m] \in Names}) <= 1

\* C3: on no date is a staff name in the final lists of two different
\* positions that are both not allowMultiple.
\* The code breaks it: the dependency block copies a name without looking
\* at specialAssigned, and a staffSeveral pick stays in availableStaff.
NoStaffInTwoSinglePositions ==
    \A d \in dates : \A n, m \in DOMAIN normalPositions :
        (Finished(d) /\ n # m /\ ~Pos(n).allowMultiple /\ ~Pos(m).allowMultiple)
            => StaffIn(FinalList(d, Pos(n).id)) \cap StaffIn(FinalList(d, Pos(m).id)) = {}

---------------------------------------------------------------------------
\* The last entry of the final list the depended-on position of pos has on
\* the business day before d; the marker when there is no such day within
\* the month, no such position or no entry
DependentExpected(d, pos) ==
    LET prev == getPreviousBusinessDay(d)
    IN  IF prev = << >> THEN UNFILLED
        ELSE IF prev[1] \notin dates \/ pos.dependence \notin PosIds THEN UNFILLED
        ELSE IF FinalList(prev[1], pos.dependence) = << >> THEN UNFILLED
        ELSE Last(FinalList(prev[1], pos.dependence))

\* C4, as the claim states it: on every date of the month the final list of
\* a dependent position is exactly the last entry its depended-on position
\* has on the previous business day, or exactly the marker.
\* It fails on a Saturday, Sunday or holiday, where no phase but the
\* special one writes a list.
DependentMirrorsOnEveryDate ==
    \A d \in dates : \A n \in DOMAIN normalPositions :
        (Finished(d) /\ HasDependence(Pos(n)))
            => FinalList(d, Pos(n).id) = <<DependentExpected(d, Pos(n))>>

\* C4, amended: on every working day the final list of a dependent position
\* is the entries of the special phase, then the last entry its depended-on
\* position has on the previous business day (the marker when there is
\* none), then, for an allowMultiple position only, what the fallback adds.
DependentFollowsPreviousBusinessDay ==
    \A d \in dates : \A n \in DOMAIN normalPositions :
        (Finished(d) /\ ~DayOff(d) /\ HasDependence(Pos(n)))
            => LET list == FinalList(d, Pos(n).id)
                   sp == SpecialLists(d)[Pos(n).id]
               IN  /\ Len(list) > Len(sp)
                   /\ SubSeq(list, 1, Len(sp)) = sp
                   /\ list[Len(sp) + 1] = DependentExpected(d, Pos(n))
                   /\ ~Pos(n).allowMultiple => Len(list) = Len(sp) + 1

\* C4, the case: a working day after a day off whose dependent position
\* shows the staff member its depended-on position had on the business day
\* before
DependentCarriesStaff ==
    \E d \in dates : \E n \in DOMAIN normalPositions :
        /\ Finished(d) /\ ~DayOff(d) /\ HasDependence(Pos(n))
        /\ DependentExpected(d, Pos(n)) \in Names
        /\ getPreviousBusinessDay(d)[1] < d - 1
        /\ FinalList(d, Pos(n).id) = <<DependentExpected(d, Pos(n))>>

---------------------------------------------------------------------------
\* The staff on one of the three leaves or on special leave on date d
Away(d) == holidayStaff(d) \cup Lookup(specialHolidays, d, {})

\* The staff the dependency block and the weekly-sticky block have placed
\* before the weekly-sticky block reaches position number n, among the
\* planned entries of a date
PlacedBeforeSticky(planned, n) ==
    {planned[Pos(m).id] :
        m \in {x \in DOMAIN normalPositions :
                  \/ HasDependence(Pos(x))
                  \/ x < n /\ Applies("weekly", Pos(x))}}

\* The working days of the month that are finished and whose week has its
\* first working day in the month
StickyDays == {d \in dates : Finished(d) /\ ~DayOff(d) /\ firstWeekday(d)[1] \in dates}

\* C5, as the claim states it: for every sameStaffWeekly position, on each
\* working day of a week on which the staff member the position got on the
\* week's first working day is not on leave and in no other position's
\* list, the position's list shows that staff member.
\* It fails for a sameStaffWeekly position that is staffSeveral too: the
\* weekly-sticky block skips it and the quota block rotates its staff.
StickyOnEverySameStaffWeeklyPosition ==
    \A d \in StickyDays : \A first \in {Planned(firstWeekday(d)[1])} :
    \A n \in DOMAIN normalPositions :
        Pos(n).sameStaffWeekly
            => LET chosen == first[Pos(n).id]
               IN  (/\ chosen \in Names
                    /\ chosen \notin Away(d)
                    /\ \A m \in DOMAIN normalPositions :
                          m # n => chosen \notin Range(FinalList(d, Pos(m).id)))
                       => chosen \in Range(FinalList(d, Pos(n).id))

\* C5, amended: for every sameStaffWeekly position without dependence that
\* is not staffSeveral, on each working day of a week on which the staff
\* member chosen on the week's first working day is not on leave (the three
\* leaves and special leave) and has not been placed that day by the
\* dependency block or by a sticky position of higher priority, the
\* position's planned entry is that staff member.
StickyStaffKeptThroughWeek ==
    \A d \in StickyDays :
    \A first \in {Planned(firstWeekday(d)[1])} : \A planned \in {Planned(d)} :
    \A n \in DOMAIN normalPositions :
        Applies("weekly", Pos(n))
            => LET chosen == first[Pos(n).id]
               IN  (/\ chosen \in Names
                    /\ chosen \notin Away(d)
                    /\ chosen \notin PlacedBeforeSticky(planned, n))
                       => planned[Pos(n).id] = chosen

\* C5, the case: a later working day of a week that keeps the staff member
\* of the first working day although another eligible one is not on leave
StickyStaffReused ==
    \E d \in StickyDays :
    \E first \in {Planned(firstWeekday(d)[1])} : \E planned \in {Planned(d)} :
    \E n \in DOMAIN normalPositions :
        /\ Applies("weekly", Pos(n))
        /\ firstWeekday(d)[1] < d
        /\ first[Pos(n).id] \in Names \ Away(d)
        /\ planned[Pos(n).id] = first[Pos(n).id]
        /\ EligibleFor(Pos(n)) \ (Away(d) \cup {planned[Pos(n).id]}) # {}

\* C6: the name recorded as a position's sticky value for a week differs
\* from the name recorded for the week before.
\* The code breaks it: the guard reads prevWeeklyAssignments under this
\* week's key, which the map of the week before never holds.
StickyDiffersFromPreviousWeek ==
    \A key \in DOMAIN weeklyAssignments : \A before \in DOMAIN prevWeeklyAssignments :
        key[2] = before[2] => weeklyAssignments[key] # prevWeeklyAssignments[before]

\* assignmentArr.filter((name) => name !== ""): the entries the report shows
RECURSIVE Reported(_)
Reported(list) ==
    IF list = << >> THEN << >>
    ELSE IF list[1] = BLANK THEN Reported(Tail(list))
    ELSE <<list[1]>> \o Reported(Tail(list))

\* C7: on a working day a position without dependence that ends the date
\* with no staff shows exactly the marker when it is required and nothing
\* when it is not.
\* The code breaks it: a required sameStaffWeekly position that another
\* position depends on gets the marker from two blocks.
NoCandidateRecordedOnce ==
    \A d \in dates : \A n \in DOMAIN normalPositions :
        (Finished(d) /\ ~DayOff(d) /\ ~HasDependence(Pos(n))
                     /\ StaffIn(FinalList(d, Pos(n).id)) = {})
            => Reported(FinalList(d, Pos(n).id))
                   = IF Pos(n).required THEN <<UNFILLED>> ELSE << >>

\* C8: a staff member with date d in the special-assignment list of a
\* position with horidayToday and horidayTomorrow is in that position's
\* list of d, in no other list of d and in no list of the day after d.
\* The code breaks it: the dependency block copies the staff member of the
\* business day before without reading the special leave.
SpecialStaffOffTodayAndTomorrow ==
    \A d \in dates : \A sn \in DOMAIN staffList : \A n \in DOMAIN normalPositions :
        (/\ Finished(d)
         /\ HasSpecialDate(staffList[sn], Pos(n), d)
         /\ Pos(n).horidayToday /\ Pos(n).horidayTomorrow)
            => /\ staffList[sn].name \in Range(FinalList(d, Pos(n).id))
               /\ \A m \in DOMAIN normalPositions :
                     m # n => staffList[sn].name \notin Range(FinalList(d, Pos(m).id))
               /\ Finished(d + 1) =>
                     \A m \in DOMAIN normalPositions :
                         staffList[sn].name \notin Range(FinalList(d + 1, Pos(m).id))

---------------------------------------------------------------------------
KeptPicks(id, s) ==
    Cardinality({d \in dates : Finished(d) /\ ~DayOff(d) /\ Planned(d)[id] = s})

\* C10: between two dates the fairness counters hold the picks of the kept
\* attempts only: a quota position's and a standard position's counter of
\* a staff member is the number of finished days the position shows that
\* staff member as its planned entry.
\* The code breaks it: a failed attempt's increments stay in the counters.
CountersHoldKeptPicksOnly ==
    pc \in {"date", "done"}
        => \A n \in DOMAIN normalPositions : \A s \in Names :
              /\ Applies("several", Pos(n))
                    => staffSeveralCounts[Pos(n).id][s] = KeptPicks(Pos(n).id, s)
              /\ Applies("standard", Pos(n))
                    => normalCounts[Pos(n).id][s] = KeptPicks(Pos(n).id, s)

---------------------------------------------------------------------------
\* Rotation claims

\* The rotation run has answered: with the report, with an error response or
\* with a failure
Answered == at \in {"done", "error", "failed"}

\* C11: every rotation run terminates: whatever the request, the run
\* eventually answers.
RotationRunTerminates == <>Answered

\* The assignments of the report: <<staff, position name, date>> of every cell
\* that names a staff member
ReportedAssignments ==
    {e \in {<<worksheet[d][id], id, d>> : d \in DOMAIN worksheet, id \in RotationIds} :
        e[1] \notin {UNFILLED, BLANK}}

\* C12: after a rotation run the entries appended to the staff documents'
\* special-assignment-date lists are exactly the assignments of the report: no
\* entry of a rejected attempt is in the store.
StoreHoldsReportedAssignments == at = "done" => staffDocs = ReportedAssignments

\* C13: a rotation run that fails before its report is produced has modified
\* no staff document.
FailedRunLeavesStoreUntouched == at = "failed" => staffDocs = {}

\* C14: in the report of a rotation run, two distinct dates on which the same
\* staff member holds a rotation position (night or on-call) are at least 3
\* calendar days apart, across month boundaries too.
SameStaffThreeDaysApart ==
    \A e1 \in ReportedAssignments, e2 \in ReportedAssignments :
        (e1[1] = e2[1] /\ e1[3] < e2[3]) => e2[3] - e1[3] >= minGapDays

\* The summed experience of the staff a row of the report names
RowExperience(row) == SumExperience(row, DOMAIN row)

\* The staff a row of the report names
StaffOfRow(row) == {row[id] : id \in DOMAIN row} \ {UNFILLED, BLANK}

\* C15: the assignment written to the report for a date has a summed
\* experience of at least the threshold (5) or is the result of the third and
\* last attempt for that date; an attempt below the threshold is not accepted
\* while attempts remain.
ReportedRowMeetsThresholdOrLastAttempt ==
    [][/\ WriteRow =>
            \/ RowExperience(worksheet'[rowDate]) >= minExperience
            \/ attemptsMade = MAX_ATTEMPTS
       /\ (ExperienceCheck /\ at' = "row") =>
            \/ RowExperience(assignmentsForDate) >= minExperience
            \/ attemptsMade' = MAX_ATTEMPTS]_vars

\* C15 witness: the row just written is below the threshold after three
\* rejected attempts, and the report also has a row that met the threshold
RowKeptAfterThirdAttempt ==
    /\ at = "date"
    /\ attemptsMade = MAX_ATTEMPTS
    /\ (rowDate - 1) \in DOMAIN worksheet
    /\ RowExperience(worksheet[rowDate - 1]) < minExperience
    /\ StaffOfRow(worksheet[rowDate - 1]) # {}
    /\ \E d \in DOMAIN worksheet : RowExperience(worksheet[d]) >= minExperience

\* A month text the request lacks, or one getDatesInMonth finds no dates for
\* (`!year || !month || month < 1 || month > 12`)
InvalidMonth(text) ==
    \/ text = << >>
    \/ Len(getDatesInMonth(<<Part(text, 1), Part(text, 2)>>)) = 0

\* C16: a rotation request whose startMonth or endMonth is missing or
\* malformed is answered with an error before any store read, store write or
\* assignment step.
InvalidMonthNeverReachesStore ==
    (InvalidMonth(request.startMonth) \/ InvalidMonth(request.endMonth))
        => (~storeRead /\ staffDocs = {})

\* The dates of the months of the range, those without dates left out
DatesOfRun ==
    UNION {Range(getDatesInMonth(monthRange[n])) : n \in DOMAIN monthRange}

\* The dates on whose row the on-call rotation wrote a cell
OnCallDates ==
    {d \in DOMAIN worksheet :
        \E n \in DOMAIN nichokuPositions : worksheet[d][nichokuPositions[n].id] # BLANK}

---------------------------------------------------------------------------
\* Roster claims on the department filter, the dependency phase and the pool

\* The names of the staff tagged with the request's department
DepartmentNames ==
    {staffList[n].name : n \in {x \in DOMAIN staffList : department \in staffList[x].departments}}

\* C18: when the request names a department, every staff name in any
\* position's list of the roster belongs to a staff member tagged with that
\* department, and only positions tagged with it have a list.
DepartmentRosterStaysInDepartment ==
    department # "" =>
        \A d \in dates : Finished(d) =>
            /\ \A n \in DOMAIN normalPositions : department \in Pos(n).departments
            /\ DOMAIN staffAssignments[d] \subseteq PosIds
            /\ \A id \in PosIds : StaffIn(FinalList(d, id)) \subseteq DepartmentNames

\* C19: a position with dependence set is never independently assigned: on a
\* working day its list holds, behind the entries of the special phase, the
\* one entry of the dependency phase and nothing any other planning phase
\* added.
DependentFilledByDependencyPhaseOnly ==
    \A d \in dates : \A n \in DOMAIN normalPositions :
        (Finished(d) /\ ~DayOff(d) /\ HasDependence(Pos(n)))
            => Len(FinalList(d, Pos(n).id)) = Len(SpecialLists(d)[Pos(n).id]) + 1

\* The entries the planning phases added to a position's list on a date: the
\* ones behind the entries of the special phase
AddedByPlanning(d, id, sp) == SubSeq(FinalList(d, id), Len(sp[id]) + 1, Len(FinalList(d, id)))

\* C20: on a working day the staff member copied into a dependent position
\* is assigned by no quota, weekly-sticky, standard or fallback phase to
\* another position on that date.
DependentStaffAssignedNowhereElse ==
    \A d \in dates : (Finished(d) /\ ~DayOff(d)) =>
        \A sp \in {SpecialLists(d)} :
        \A n \in DOMAIN normalPositions :
            (HasDependence(Pos(n)) /\ AddedByPlanning(d, Pos(n).id, sp)[1] \in Names)
                => \A o \in DOMAIN normalPositions :
                      ~HasDependence(Pos(o))
                          => AddedByPlanning(d, Pos(n).id, sp)[1]
                                \notin Range(AddedByPlanning(d, Pos(o).id, sp))

---------------------------------------------------------------------------
\* Roster claims on the selections, the fallback and the retry loop

\* The weekly-sticky block reuses the week's recorded staff member instead of
\* selecting one
StickyReuse ==
    /\ pc = "weekly"
    /\ alreadyAssignedName(normalPositions[k]) # ""
    /\ alreadyAssignedName(normalPositions[k]) \notin dailyAssigned

\* The candidates the block the run is at selects among for its position
SelectionCandidates ==
    CASE pc = "several" -> SeveralCandidates(normalPositions[k])
      [] pc = "weekly" -> AvailableForPos(normalPositions[k])
      [] pc = "depended" -> DependedCandidates(normalPositions[k])
      [] pc = "standard" -> AvailableForPos(normalPositions[k])
      [] OTHER -> {}

\* The next step selects a staff member for an independent position
Selects == ~StickyReuse /\ SelectionCandidates # {}

\* C21: whenever the planner selects a staff member for an independent
\* position (quota block, weekly-sticky block without a reusable name,
\* depended-on block, standard block), the selected staff member's counter
\* for the position is minimal among the candidates of the selection, and
\* exactly that counter grows by 1: the staffSeveral counter in the quota
\* block, the standard counter in the other blocks.
\* The code breaks it: the depended-on block picks among all its candidates
\* and counts nothing.
SelectionIsLeastUsedAndCounted ==
    [][Selects =>
         \E chosen \in SelectionCandidates :
            /\ staffAssignments'[date][normalPositions[k].id]
                  = Append(staffAssignments[date][normalPositions[k].id], chosen)
            /\ IF pc = "several"
               THEN /\ chosen \in LeastUsed(SelectionCandidates,
                                            staffSeveralCounts[normalPositions[k].id])
                    /\ staffSeveralCounts' =
                          [staffSeveralCounts EXCEPT ![normalPositions[k].id][chosen] = @ + 1]
                    /\ normalCounts' = normalCounts
               ELSE /\ chosen \in LeastUsed(SelectionCandidates,
                                            normalCounts[normalPositions[k].id])
                    /\ normalCounts' =
                          [normalCounts EXCEPT ![normalPositions[k].id][chosen] = @ + 1]
                    /\ staffSeveralCounts' = staffSeveralCounts]_vars

\* C22: the fallback places every staff member still unassigned into the
\* first position in priority order they are eligible for and that has room
\* (allowMultiple, or holding no staff), and a staff member is left in the
\* pool only if no position they are eligible for has room.  Stated on the
\* step of the fallback: behind it no position a left-over staff member is
\* eligible for has room, and a placed staff member is in a position they
\* are eligible for, no position of higher priority they are eligible for
\* having room.
\* The code breaks it: a list that holds the marker or a blank is not empty,
\* and a staffSeveral position is never a candidate.
FallbackPlacesWhereRoomIs ==
    [][pc = "fallback" =>
         LET lists == staffAssignments'[date]
             room(n) == Pos(n).allowMultiple \/ StaffIn(lists[Pos(n).id]) = {}
             open(s) == {n \in DOMAIN normalPositions : s \in EligibleFor(Pos(n))}
         IN  /\ \A s \in availableStaff' : \A n \in open(s) : ~room(n)
             /\ \A s \in availableStaff \ availableStaff' :
                   \E n \in open(s) :
                      /\ lists[Pos(n).id] # staffAssignments[date][Pos(n).id]
                      /\ s \in Range(lists[Pos(n).id])
                      /\ \A m \in open(s) : m < n => ~room(m)]_vars

\* The available pool an attempt of the current date starts with
InitialPool ==
    (({filteredStaffList[n].name : n \in DOMAIN filteredStaffList} \ holidayStaff(date))
        \ Lookup(specialHolidays, date, {})) \ specialAssigned

\* The staff names in the lists of the current date
ListedToday ==
    UNION {StaffIn(staffAssignments[date][id]) : id \in DOMAIN staffAssignments[date]}

\* C23: the retry loop of a date stops at the first attempt that leaves no
\* staff in the available pool and otherwise runs 10 attempts and keeps the
\* lists of the last one; when the loop ends with fewer than 10 failed
\* attempts, every staff member of the date's initial pool is in at least
\* one position's list of the date.
RetryLoopKeepsFirstCompleteAttempt ==
    [][/\ pc = "fallback" =>
            /\ assignmentValid' <=> availableStaff' = {}
            /\ attempt' = IF availableStaff' = {} THEN attempt ELSE attempt + 1
       /\ pc = "loop" =>
            /\ (assignmentValid \/ attempt = maxRetries) =>
                  /\ pc' \in {"date", "done"}
                  /\ i' = i + 1
                  /\ staffAssignments' = staffAssignments
            /\ (~assignmentValid /\ attempt < maxRetries) => pc' \notin {"date", "done"}
            /\ (pc' \in {"date", "done"} /\ attempt < maxRetries) =>
                  InitialPool \subseteq ListedToday]_vars

\* C23 witness: the loop of a date ends after failed attempts with an attempt
\* that emptied a pool of two staff members, both in the lists of the date
LoopEndsAfterFailedAttempts ==
    /\ pc = "loop"
    /\ assignmentValid
    /\ attempt > 0
    /\ Cardinality(InitialPool) = 2
    /\ InitialPool \subseteq ListedToday

---------------------------------------------------------------------------
\* Claims on the business-day functions

\* C24: getNextBusinessDay(d) and getPreviousBusinessDay(d) return the
\* nearest date strictly after (before) d that is not a Saturday, Sunday or
\* holiday whenever that date is reached within 10 skipped non-working days,
\* and return null only when more than 10 non-working days lie in the way.
\* The code breaks it: behind exactly 10 skipped days the loop stands on the
\* business day and the function returns null.
BusinessDayFoundWithinTenSkips ==
    asked # "none" =>
        LET dir == IF asked = "next" THEN 1 ELSE -1
            skipped(n) == \A m \in 1 .. n : NonWorking(day + dir * m)
        IN  /\ \A n \in 0 .. maxSkips :
                  (skipped(n) /\ ~NonWorking(day + dir * (n + 1)))
                      => answer = <<day + dir * (n + 1)>>
            /\ answer = << >> => skipped(maxSkips + 1)

---------------------------------------------------------------------------
\* Claims on the holiday provider

\* C25: during one run the holiday provider is called at most once per
\* (year, month): every later classification of a date of the month is
\* answered from the cached set.  Every date of a run of roster generation
\* lies in the one month of the request.
\* The code breaks it: getJapaneseHolidays keeps nothing and fetches the
\* provider's dates whenever a date is classified.
ProviderCalledOncePerMonth == providerCalls <= 1

---------------------------------------------------------------------------
\* Rotation claims on the department selection

\* The step changes the counter under key by weight and no other counter
OnlyCounterRaised(key, weight) ==
    /\ Lookup(counters', key, 0) = Lookup(counters, key, 0) + weight
    /\ \A other \in (DOMAIN counters \cup DOMAIN counters') \ {key} :
          Lookup(counters', other, 0) = Lookup(counters, other, 0)

\* C26: at every department selection of the rotation the chosen
\* department's counter is minimal among the candidate departments (night
\* rotation: among the counters of the space the following day selects,
\* "preHoliday" when it is non-working and "plain" when not), and only that
\* counter is raised, by the department's weight: 1 for seiri, 3 for
\* yuketsu, 2 otherwise in the night rotation; in the on-call rotation also
\* 4 for byori at the position nichokuFuku.  No counter of another space
\* changes.
DepartmentLeastCountedAndWeighted ==
    [][/\ (at = "night" /\ NightCandidates # {}) =>
            \E dept \in NightCandidates :
               LET space == IF IsHoliday(rowDate + 1) THEN "preHoliday" ELSE "plain"
                   name == nightPositions[posIndex].name
               IN  /\ \A o \in NightCandidates :
                         Lookup(counters, <<space, name, dept>>, 0)
                            <= Lookup(counters, <<space, name, o>>, 0)
                   /\ OnlyCounterRaised(<<space, name, dept>>,
                                        IF dept = SEIRI THEN 1
                                        ELSE IF dept = YUKETSU THEN 3 ELSE 2)
       /\ (at = "nichoku"
             /\ candidateDepts \cap allowedDepts(nichokuPositions[posIndex]) # {}) =>
            \E dept \in candidateDepts \cap allowedDepts(nichokuPositions[posIndex]) :
               LET name == nichokuPositions[posIndex].name
               IN  /\ \A o \in candidateDepts \cap allowedDepts(nichokuPositions[posIndex]) :
                         Lookup(counters, <<"nichoku", name, dept>>, 0)
                            <= Lookup(counters, <<"nichoku", name, o>>, 0)
                   /\ OnlyCounterRaised(<<"nichoku", name, dept>>,
                                        IF dept = SEIRI THEN 1
                                        ELSE IF name = NICHOKU_FUKU /\ dept = BYORI THEN 4
                                        ELSE IF dept = YUKETSU THEN 3 ELSE 2)]_vars

\* C26 witness: the counters show a selection of every weight: yuketsu (3)
\* and seiri (1) in the plain space of the night rotation, byori (2) in its
\* pre-holiday space, and byori (4) and seiri (1) at nichokuFuku
EveryWeightCounted ==
    /\ Lookup(counters, <<"plain", "N1", YUKETSU>>, 0) = 3
    /\ Lookup(counters, <<"plain", "N1", SEIRI>>, 0) = 1
    /\ Lookup(counters, <<"preHoliday", "N1", BYORI>>, 0) = 2
    /\ Lookup(counters, <<"nichoku", NICHOKU_FUKU, BYORI>>, 0) = 4
    /\ Lookup(counters, <<"nichoku", NICHOKU_FUKU, SEIRI>>, 0) = 1

\* The departments whose counter a step raised
DepartmentsCounted ==
    {key[3] : key \in {x \in DOMAIN counters' : Lookup(counters, x, 0) # counters'[x]}}

\* C27: on a date that is a Saturday, Sunday or holiday, or whose following
\* day is one, the night rotation never selects biseibutsu, and on no date
\* does it select one of the rotation-duty tags (nikotai, taiki, nichokuShu,
\* nichokuFuku) as the department.
NightNeverSelectsFragileOrDutyTag ==
    [][at = "night" =>
         \A dept \in DepartmentsCounted :
            /\ dept \notin {NIKOTAI, TAIKI, NICHOKU_SHU, NICHOKU_FUKU}
            /\ (\E d \in {rowDate, rowDate + 1} :
                   getDay(d) \in {0, 6} \/ (providerOk /\ d \in holidays))
                  => dept # BISEIBUTSU]_vars

\* C27 witness: a run whose staff carry biseibutsu and a rotation-duty tag
\* has selected biseibutsu on a working day before a working day, and another
\* department on a day before a day off
FragileSelectedOnPlainDayOnly ==
    /\ BISEIBUTSU \in candidateDepts
    /\ Lookup(counters, <<"plain", "N1", BISEIBUTSU>>, 0) > 0
    /\ \E key \in DOMAIN counters : key[1] = "preHoliday" /\ counters[key] > 0
    /\ \E n \in DOMAIN staffList : NIKOTAI \in staffList[n].departments

---------------------------------------------------------------------------
\* Rotation claims on the on-call rotation and the rollback

\* C28: the on-call positions get an assignment (a staff member or the
\* marker) on a date exactly when the date is a Saturday, Sunday or holiday,
\* from a department the position allows (nichokuFuku: seiri or byori;
\* nichokuShu: byori, yuketsu, seikagaku or ketsueki), while every night
\* position gets an assignment on every date of the range.
OnCallOnDaysOffNightOnEveryDate ==
    [][/\ WriteRow =>
            /\ \A n \in DOMAIN nichokuPositions :
                  worksheet'[rowDate][nichokuPositions[n].id] # BLANK
                      <=> (getDay(rowDate) \in {0, 6} \/ (providerOk /\ rowDate \in holidays))
            /\ \A n \in DOMAIN nightPositions :
                  worksheet'[rowDate][nightPositions[n].id] # BLANK
       /\ at = "nichoku" =>
            \A dept \in DepartmentsCounted :
               /\ nichokuPositions[posIndex].name = NICHOKU_FUKU => dept \in {SEIRI, BYORI}
               /\ nichokuPositions[posIndex].name = NICHOKU_SHU
                     => dept \in {BYORI, YUKETSU, SEIKAGAKU, KETSUEKI}
       /\ at = "report" => DOMAIN worksheet = DatesOfRun]_vars

\* C28 witness: a finished run whose report has a holiday on a weekday with a
\* staff member on call, and a working day with the on-call cell blank and a
\* staff member on the night position
OnCallOnHolidayBlankOnWorkingDay ==
    /\ at = "done"
    /\ \E d \in DOMAIN worksheet : \E n \in DOMAIN nichokuPositions :
          /\ getDay(d) \notin {0, 6}
          /\ worksheet[d][nichokuPositions[n].id] \notin {BLANK, UNFILLED}
    /\ \E d \in DOMAIN worksheet :
          /\ \A n \in DOMAIN nichokuPositions : worksheet[d][nichokuPositions[n].id] = BLANK
          /\ \E n \in DOMAIN nightPositions :
                worksheet[d][nightPositions[n].id] \notin {BLANK, UNFILLED}

\* C29: when an attempt of a date is rejected for its experience and another
\* attempt follows, the department counters, the staff counters and the
\* last-assigned map the next attempt starts with are exactly those that
\* held before the rejected attempt started: the head of an attempt copies
\* the three maps as they are, the rotations leave the copies alone, and the
\* rejection puts the copies back.
RejectedAttemptIsRolledBack ==
    [][/\ (at = "check" /\ at' = "attempt") =>
            /\ counters' = countersBackup
            /\ staffCounters' = staffCountersBackup
            /\ staffLastAssigned' = staffLastAssignedBackup
       /\ (at = "attempt" /\ at' # "attempt") =>
            /\ countersBackup' = counters /\ counters' = counters
            /\ staffCountersBackup' = staffCounters /\ staffCounters' = staffCounters
            /\ staffLastAssignedBackup' = staffLastAssigned
            /\ staffLastAssigned' = staffLastAssigned
       /\ at \in {"night", "nichoku"} =>
            /\ countersBackup' = countersBackup
            /\ staffCountersBackup' = staffCountersBackup
            /\ staffLastAssignedBackup' = staffLastAssignedBackup]_vars

\* C29 witness: a second attempt is about to start after an attempt that had
\* raised a department counter and a staff counter and set a last-assigned
\* date, none of which the maps show any more
SecondAttemptStartsFromBackup ==
    /\ at = "attempt"
    /\ attemptsMade = 1
    /\ assignmentsForDate # << >>
    /\ \E id \in DOMAIN assignmentsForDate : assignmentsForDate[id] \notin {UNFILLED, BLANK}
    /\ counters = countersBackup
    /\ staffLastAssigned = staffLastAssignedBackup
    /\ rowDate \notin {staffLastAssigned[s] : s \in DOMAIN staffLastAssigned}

---------------------------------------------------------------------------
\* Roster claims on the special phase

\* C30: on any date the special phase assigns a staff member to at most one
\* position, even when the staff member has the date in the
\* special-assignment dates of several positions, whatever the horidayToday
\* and horidayTomorrow flags of those positions are.
\* The code breaks it: only a position with horidayToday records the staff
\* member in specialAssigned.
SpecialPhaseAssignsOnePosition ==
    \A d \in dates : Finished(d) =>
        \A sp \in {SpecialLists(d)} :
        \A s \in Names :
            Cardinality({id \in PosIds : s \in Range(sp[id])}) <= 1

---------------------------------------------------------------------------
\* Roster claims on the depended-on positions and the date loop

\* The staff with a special-assignment date, in a position with
\* horidayTomorrow, whose next business day is date d
SpecialLeaveAfterDuty(d) ==
    {staffList[n].name :
        n \in {x \in DOMAIN staffList :
                  \E p \in DOMAIN normalPositions : \E e \in dates :
                     /\ normalPositions[p].horidayTomorrow
                     /\ HasSpecialDate(staffList[x], normalPositions[p], e)
                     /\ getNextBusinessDay(e) = <<d>>}}

\* C31: when a planning block (the weekly-sticky block or the depended-on
\* block) puts a staff member on a working day into a position another
\* position depends on, that staff member is on none of the three leaves on
\* the next business day and is not among the staff whose duty with
\* horidayTomorrow gives them special leave on that next business day.
\* The code breaks it: the weekly-sticky block fills a depended-on position
\* that is sameStaffWeekly without reading the next business day.
DependedOnStaffPresentNextBusinessDay ==
    [][(/\ pc \in {"weekly", "depended"}
        /\ normalPositions[k].id \in referencedIndependentIds
        /\ getNextBusinessDay(date) # << >>)
          => \A entry \in {Last(staffAssignments'[date][normalPositions[k].id])} :
                entry \in Names
                   => /\ entry \notin holidayStaff(getNextBusinessDay(date)[1])
                      /\ entry \notin SpecialLeaveAfterDuty(getNextBusinessDay(date)[1])]_vars

\* C32: the dates are processed in strictly increasing order, and a step
\* taken while date d is processed changes the lists of date d only: the
\* index of the date loop never goes back and moves on by one, the lists of
\* every other date stay as they are, no list of a later date is created,
\* and the date a dependency lookup reads lies before the current one, so
\* the list it reads is final.
DateListsWrittenWhileCurrentOnly ==
    [][/\ i' \in {i, i + 1}
       /\ DOMAIN staffAssignments' \subseteq DOMAIN staffAssignments \cup {date}
       /\ \A d \in DOMAIN staffAssignments :
             d # date => /\ d \in DOMAIN staffAssignments'
                         /\ staffAssignments'[d] = staffAssignments[d]
       /\ pc = "dependency" =>
             \A prev \in {getPreviousBusinessDay(date)} :
                (prev # << >> /\ prev[1] \in DOMAIN staffAssignments) => prev[1] < i]_vars

\* C32 witness: in a retry of a date behind the first, after the reset of its lists, a
\* dependency lookup reads a staff member from the list of an earlier date
LookupReadsEarlierDateInRetry ==
    /\ pc = "dependency"
    /\ i >= 2
    /\ attempt >= 1
    /\ PreviousList(normalPositions[k].dependence) # << >>
    /\ Last(PreviousList(normalPositions[k].dependence)) \in Names
    /\ staffAssignments[date][normalPositions[k].id] = preservedAssignments[normalPositions[k].id]
    /\ \E d \in DOMAIN staffAssignments : d < i /\ staffAssignments[d] # preservedAssignments

---------------------------------------------------------------------------
\* Rotation claims on the counters of a date

\* The staff the assignments of the current date name
StaffOfDate ==
    {assignmentsForDate[id] : id \in DOMAIN assignmentsForDate} \ {UNFILLED, BLANK}

\* C33: when the attempts of a date have ended and its row is about to be
\* written, the three maps include the increments of the attempt whose
\* assignments are written: every staff member the row names has the date
\* as last-assigned date, and the department counters and the staff
\* counters stand above their values at the head of that attempt, also when
\* the attempt is the third one, which is kept whatever its experience.
\* The code breaks it: the third attempt is rolled back like the two before
\* it, and its assignments are written all the same.
WrittenAttemptIsCounted ==
    (at = "row" /\ StaffOfDate # {}) =>
        /\ \A s \in StaffOfDate : Lookup(staffLastAssigned, s, 0) = rowDate
        /\ counters # countersBackup
        /\ staffCounters # staffCountersBackup

\* C34: a department counter is raised only when a staff member of the
\* chosen department is assigned to the position: a step of the night or the
\* on-call rotation that leaves its position with the marker changes no
\* department counter.
\* The code breaks it: both rotations raise the chosen department's counter
\* before they look for eligible staff.
UnfilledPositionRaisesNoCounter ==
    [][/\ (at = "night" /\ assignmentsForDate'[nightPositions[posIndex].id] = UNFILLED)
            => counters' = counters
       /\ (at = "nichoku" /\ assignmentsForDate'[nichokuPositions[posIndex].id] = UNFILLED)
            => counters' = counters]_vars

\* C35: on a single date no staff member holds two rotation positions, the
\* night and the on-call positions counted together: the cells of a row of
\* the report that name a staff member name different ones.
\* The code breaks it: the on-call rotation does not read the last-assigned
\* map, so it takes the staff member the night rotation took on the date.
OneRotationPositionPerStaffAndDate ==
    \A d \in DOMAIN worksheet : \A id1 \in RotationIds, id2 \in RotationIds :
        (id1 # id2 /\ worksheet[d][id1] \notin {UNFILLED, BLANK})
            => worksheet[d][id1] # worksheet[d][id2]

\* The counter keys of the night rotation raised since the head of the
\* current attempt: the selections the attempt has made for its date
SelectedInAttempt ==
    {key \in DOMAIN counters :
        key[1] # "nichoku" /\ counters[key] # Lookup(countersBackup, key, 0)}

\* C36: on a single date no department other than seiri is selected for two
\* different night positions: the department a step of the night rotation
\* selects, unless it is seiri, is one the attempt has selected for no other
\* night position of the date.
DepartmentOncePerDateUnlessSeiri ==
    [][at = "night" =>
         \A dept \in DepartmentsCounted :
            dept # SEIRI =>
               \A key \in SelectedInAttempt :
                  key[2] # nightPositions[posIndex].name => key[3] # dept]_vars

\* C36 witness: an attempt has selected seiri for both night positions of a
\* date, and an earlier date of the run ended with a department other than
\* seiri counted for the first position and a different one for the second
SeiriTwiceOthersOnce ==
    /\ at = "check"
    /\ Len(nightPositions) = 2
    /\ \A n \in DOMAIN nightPositions :
          \E key \in SelectedInAttempt : key[2] = nightPositions[n].name /\ key[3] = SEIRI
    /\ \E first \in DOMAIN countersBackup, second \in DOMAIN countersBackup :
          /\ first[2] = nightPositions[1].name /\ second[2] = nightPositions[2].name
          /\ first[3] # SEIRI /\ second[3] # first[3]

---------------------------------------------------------------------------
\* Roster claims on the marker and the sticky value

\* C37: in no final list of the roster does the marker stand together with
\* a staff name: a list that holds the marker holds no other entry that is
\* not blank.
\* The code breaks it: the fallback adds a staff member to the list of an
\* allowMultiple position that holds the marker.
MarkerStandsAlone ==
    \A d \in dates : \A id \in PosIds :
        (Finished(d) /\ UNFILLED \in Range(FinalList(d, id)))
            => Range(FinalList(d, id)) \subseteq {UNFILLED, BLANK}

\* The first working day within the month of the week of date d
FirstInMonthWorkingDay(d) ==
    CHOOSE f \in dates :
        /\ weekStart(f) = weekStart(d) /\ ~DayOff(f)
        /\ \A o \in dates : (weekStart(o) = weekStart(d) /\ ~DayOff(o)) => f <= o

\* The finished working days of a week whose first working day lies before
\* the first day of the month
CarriedWeekDays ==
    {d \in dates : Finished(d) /\ ~DayOff(d) /\ firstWeekday(d) # << >> /\ firstWeekday(d)[1] < 1}

\* C38: for a sameStaffWeekly position (without dependence, not
\* staffSeveral) in a week whose first working day lies before the first
\* day of the month, every working day of the week within the month on
\* which the staff member chosen on the first in-month working day is not
\* on leave and has not been placed by the dependency block or a sticky
\* position of higher priority shows that staff member as the position's
\* planned entry.
\* The code breaks it: the sticky value is recorded only on the date that
\* equals the week's first working day, which for such a week is no date of
\* the run, so every day of the week selects anew by the counters.
StickyKeptInWeekCarriedIntoMonth ==
    \A d \in CarriedWeekDays :
    \A first \in {Planned(FirstInMonthWorkingDay(d))} : \A planned \in {Planned(d)} :
    \A n \in DOMAIN normalPositions :
        Applies("weekly", Pos(n))
            => LET chosen == first[Pos(n).id]
               IN  (/\ chosen \in Names
                    /\ chosen \notin Away(d)
                    /\ chosen \notin PlacedBeforeSticky(planned, n))
                       => planned[Pos(n).id] = chosen

---------------------------------------------------------------------------
\* Claims on the edit endpoint

\* C39: the edit endpoint sends its success response only after every add
\* and every remove of the request has been applied to the store, and sends
\* the error response when one of those updates fails.
\* The code breaks it: forEach does not await its async callbacks, so POST
\* returns the success response while the updates are in flight, and a
\* rejected update reaches no catch block.
SuccessOnlyAfterEveryUpdate ==
    /\ response = "success" =>
          \A cb \in DOMAIN callbacks : callbacks[cb].status = "done"
    /\ (\E cb \in DOMAIN callbacks : callbacks[cb].status = "failed") => response = "error"

=============================================================================
